---- MODULE Spec2Model ----
(***************************************************************************)
(* Model of the WebGL Lab core: the lat/long sphere mesh generator         *)
(* (core/mesh/sphere.ts) and the column-major 4x4 matrix utilities         *)
(* (core/math/mat4.ts).                                                    *)
(*                                                                         *)
(* The specifications of the module:                                       *)
(*   SpecMesh, SpecMeshLarge - a caller invokes createSphereMesh;          *)
(*   SpecMat    - a caller invokes the matrix operations, in any order,    *)
(*                on a heap of Float32Array(16) objects;                   *)
(*   SpecScript - a caller runs a fixed sequence of matrix operations;     *)
(*   SpecRouter - the hash router (app/router.ts) under the bootstrap of   *)
(*                main.ts and under other registrations;                   *)
(*   SpecPages  - one of the pages Transform01, Sphere01 and Texture01 is  *)
(*                rendered into the outlet, used, and torn down.           *)
(***************************************************************************)
EXTENDS Integers, Sequences, FiniteSets, TLC

VARIABLES
    meshPc,     \* "idle" | "returned" | "thrown": position of the mesh caller
    meshArgs,   \* <<radius, stacks, slices>> of the current createSphereMesh call
    mesh,       \* the value returned by the last createSphereMesh call
    heap,       \* the Float32Array(16) objects allocated so far; ids are 1..Len
    lastCall,   \* the last matrix operation performed and the id it returned
    script,     \* the matrix operations the scripted caller has yet to perform
    router,     \* the module state of the router: routes, outlet, notFoundRenderer
    locationHash, \* what location.hash reads, as a sequence of tokens
    lastNav,    \* what the last navigate() call did to the outlet, in order
    tf,         \* the Transform01 instance rendered into the outlet, if any
    sp,         \* the Sphere01 instance rendered into the outlet, if any
    tex,        \* the Texture01 instance rendered into the outlet, if any
    tri,        \* the Triangle01 instance rendered into the outlet, if any
    gl          \* the run of the WebGL helpers against one environment

meshVars == <<meshPc, meshArgs, mesh>>

matVars == <<heap, lastCall, script>>

routerVars == <<router, locationHash, lastNav>>

pageVars == <<tf, sp, tex, tri>>

appVars == <<router, locationHash, lastNav, tf, sp, tex, tri>>

vars ==
    <<meshPc, meshArgs, mesh, heap, lastCall, script,
      router, locationHash, lastNav, tf, sp, tex, tri, gl>>

\* The router before registerRoutes: routes = [], outlet = null,
\* notFoundRenderer = null; no hashchange listener.
NoRouter ==
    [routes |-> <<>>, outlet |-> FALSE, notFoundRenderer |-> "null",
     listening |-> FALSE]

\* No navigate() call has run.
NoNav ==
    [ran |-> FALSE, ops |-> <<>>, replaced |-> FALSE, hash |-> <<>>,
     call |-> 0]

\* The page has not been rendered.
NoPage == [phase |-> "absent"]

\* Nothing of the application has run.
AppIdle ==
    /\ router = NoRouter
    /\ locationHash = <<>>
    /\ lastNav = NoNav
    /\ tf = NoPage
    /\ sp = NoPage
    /\ tex = NoPage
    /\ tri = NoPage

\* No helper of the WebGL layer has been called.
NoGL == [pc |-> "idle"]

----------------------------------------------------------------------------
(* Bounds of the model. *)

\* Counts run from -MaxNegative up to MaxStacks and MaxSlices.
MaxNegative == 2
MaxStacks == 3
MaxSlices == 4

\* Radii the callers pass (the page passes 1).
Radii == {0, 1, 2}

\* Typed arrays are observed on their first and last Window elements.  Every
\* array of a mesh within the bounds above is therefore observed whole; of the
\* large meshes only the head and the tail are.
Window == 6 * (MaxStacks + 1) * (MaxSlices + 1)

\* Meshes beyond the small bounds that callers can also request: the largest
\* one whose indices all fit 16 bits (65536 vertices) and the next one up.
LargeArgs == { <<1, 255, 255>>, <<1, 256, 255>> }

----------------------------------------------------------------------------
(* Numbers. *)

\* Width of a Uint16Array element.
Uint16Modulus == 65536

\* A limit one vertex higher: the number of values a Uint16 index can take.
MaxVertexCount_IndexValues == Uint16Modulus

\* Largest vertex count createSphereMesh accepts without a warning.
MaxVertexCount == 65535

\* ToUint16 of an integer-valued number: the value modulo 2^16.
ToUint16(n) == n % Uint16Modulus

\* A float is <<m, k>>, standing for m / 2^k (m odd unless k = 0), or NaN.
NaN == <<0, -1>>
FZero == <<0, 0>>
FOne == <<1, 0>>

\* Strip common factors of two so that equal values have equal encodings.
RECURSIVE Normalise(_, _)
Normalise(m, k) ==
    IF k > 0 /\ m % 2 = 0 THEN Normalise(m \div 2, k - 1) ELSE <<m, k>>

\* Binary long division of r/q (0 <= r < q), producing mantissa bits until 24
\* significant bits are held: acc is the mantissa so far, k the number of
\* fraction bits produced.  Rounds to nearest, ties to even.
RECURSIVE DivBits(_, _, _, _)
DivBits(r, q, acc, k) ==
    IF acc >= 2 ^ 23 \/ r = 0
    THEN LET up == (2 * r > q) \/ (2 * r = q /\ acc % 2 = 1)
         IN  Normalise(IF up THEN acc + 1 ELSE acc, k)
    ELSE LET bit == IF 2 * r >= q THEN 1 ELSE 0
         IN  DivBits(2 * r - bit * q, q, 2 * acc + bit, k + 1)

\* Math.fround(a / b) for integers 0 <= a <= b, as a Float32Array stores it.
\* 0/0 is NaN.  (For the denominators used here rounding the exact quotient
\* and rounding the double quotient agree.)
FroundDiv(a, b) ==
    IF b = 0 THEN NaN
    ELSE IF a = b THEN FOne
    ELSE DivBits(a, b, 0, 0)

\* 0 <= f <= 1 for a float that is not NaN (a mantissa has at most 24 bits).
FInUnit(f) == f # NaN /\ f[1] >= 0 /\ (f[2] >= 24 \/ f[1] <= 2 ^ f[2])

----------------------------------------------------------------------------
(* Typed arrays. *)

\* The observed positions of a typed array of n elements.
Observed(n, p) ==
    p >= 0 /\ p < n /\ (p < Window \/ p >= n - Window)

ObservedIdx(n) ==
    {p \in (0..(Window - 1)) \cup ((n - Window)..(n - 1)) : Observed(n, p)}

\* new Float32Array(n) / new Uint16Array(n) for n >= 0: n elements, all zero.
NewTypedArray(n, zero) ==
    [length |-> n, elems |-> [p \in ObservedIdx(n) |-> zero]]

\* a[p] = v on a typed array: a write outside 0..length-1 is ignored.
Store(a, p, v) ==
    IF Observed(a.length, p) THEN [a EXCEPT !.elems[p] = v] ELSE a

\* The value a caller sees when the constructor threw.
NoArray == [length |-> 0, elems |-> <<>>]

----------------------------------------------------------------------------
(* createSphereMesh *)

\* A position component: <<axis, radius, stack, slice>> stands for the float
\* radius*sinPhi*cosTheta (axis 1), radius*cosPhi (axis 2) or
\* radius*sinPhi*sinTheta (axis 3) of that grid point; PZero is the 0 a fresh
\* Float32Array holds.
PZero == <<0, 0, 0, 0>>
PosX(radius, stack, slice) == <<1, radius, stack, slice>>
PosY(radius, stack, slice) == <<2, radius, stack, 0>>
PosZ(radius, stack, slice) == <<3, radius, stack, slice>>

\* A count that merges the seam column instead of storing it twice.
VertexCountOf_SeamMerged(stacks, slices) == (stacks + 1) * slices

VertexCountOf(stacks, slices) == (stacks + 1) * (slices + 1)

IndexCountOf(stacks, slices) == stacks * slices * 6

\* A u that divides by the number of columns instead of the number of slices.
UOf_PerColumn(slice, slices) == FroundDiv(slice, slices + 1)

UOf(slice, slices) == FroundDiv(slice, slices)

VOf(stack, stacks) == FroundDiv(stack, stacks)

\* Body of the inner vertex loop: c = [positions, uvs, vi].
VertexBody(radius, stacks, slices, stack, slice, c) ==
    LET p1 == Store(c.positions, c.vi * 3, PosX(radius, stack, slice))
        p2 == Store(p1, c.vi * 3 + 1, PosY(radius, stack, slice))
        p3 == Store(p2, c.vi * 3 + 2, PosZ(radius, stack, slice))
        u1 == Store(c.uvs, c.vi * 2, UOf(slice, slices))
        u2 == Store(u1, c.vi * 2 + 1, VOf(stack, stacks))
    IN  [positions |-> p3, uvs |-> u2, vi |-> c.vi + 1]

\* for (let slice = lo; slice <= hi; slice++): the iterations lo..hi in
\* increasing order, each on the result of the one before.  The range is
\* evaluated half by half, the first half (left) before the second, which
\* keeps the evaluation depth logarithmic.
RECURSIVE VertexSliceLoop(_, _, _, _, _, _, _)
VertexSliceLoop(radius, stacks, slices, stack, lo, hi, c) ==
    IF lo > hi THEN c
    ELSE IF lo = hi THEN VertexBody(radius, stacks, slices, stack, lo, c)
    ELSE LET mid == (lo + hi) \div 2
         IN  CHOOSE r \in {VertexSliceLoop(radius, stacks, slices, stack, mid + 1, hi, left) :
                         left \in {VertexSliceLoop(radius, stacks, slices, stack, lo, mid, c)}} : TRUE

\* for (let stack = lo; stack <= hi; stack++), evaluated the same way.
RECURSIVE VertexStackLoop(_, _, _, _, _, _)
VertexStackLoop(radius, stacks, slices, lo, hi, c) ==
    IF lo > hi THEN c
    ELSE IF lo = hi
         THEN VertexSliceLoop(radius, stacks, slices, lo, 0, slices, c)
    ELSE LET mid == (lo + hi) \div 2
         IN  CHOOSE r \in {VertexStackLoop(radius, stacks, slices, mid + 1, hi, left) :
                         left \in {VertexStackLoop(radius, stacks, slices, lo, mid, c)}} : TRUE

First(stack, slice, slices) == stack * (slices + 1) + slice

\* A row stride one too long.
Second_LongStride(first, slices) == first + slices + 2

Second(first, slices) == first + slices + 1

\* An index loop body that emits the first triangle with the opposite winding.
IndexBody_Rewound(slices, stack, slice, c) ==
    LET first == stack * (slices + 1) + slice
        second == first + slices + 1
        i1 == Store(c.indices, c.ii, ToUint16(first))
        i2 == Store(i1, c.ii + 1, ToUint16(first + 1))
        i3 == Store(i2, c.ii + 2, ToUint16(second))
        i4 == Store(i3, c.ii + 3, ToUint16(first + 1))
        i5 == Store(i4, c.ii + 4, ToUint16(second))
        i6 == Store(i5, c.ii + 5, ToUint16(second + 1))
    IN  [indices |-> i6, ii |-> c.ii + 6]

\* Body of the inner index loop: c = [indices, ii].
IndexBody(slices, stack, slice, c) ==
    LET first == First(stack, slice, slices)
        second == Second(first, slices)
        i1 == Store(c.indices, c.ii, ToUint16(first))
        i2 == Store(i1, c.ii + 1, ToUint16(second))
        i3 == Store(i2, c.ii + 2, ToUint16(first + 1))
        i4 == Store(i3, c.ii + 3, ToUint16(first + 1))
        i5 == Store(i4, c.ii + 4, ToUint16(second))
        i6 == Store(i5, c.ii + 5, ToUint16(second + 1))
    IN  [indices |-> i6, ii |-> c.ii + 6]

\* for (let slice = lo; slice < slices; slice++), hi = slices - 1.
RECURSIVE IndexSliceLoop(_, _, _, _, _)
IndexSliceLoop(slices, stack, lo, hi, c) ==
    IF lo > hi THEN c
    ELSE IF lo = hi THEN IndexBody(slices, stack, lo, c)
    ELSE LET mid == (lo + hi) \div 2
         IN  CHOOSE r \in {IndexSliceLoop(slices, stack, mid + 1, hi, left) :
                         left \in {IndexSliceLoop(slices, stack, lo, mid, c)}} : TRUE

\* for (let stack = lo; stack < stacks; stack++), hi = stacks - 1.
RECURSIVE IndexStackLoop(_, _, _, _, _)
IndexStackLoop(stacks, slices, lo, hi, c) ==
    IF lo > hi THEN c
    ELSE IF lo = hi THEN IndexSliceLoop(slices, lo, 0, slices - 1, c)
    ELSE LET mid == (lo + hi) \div 2
         IN  CHOOSE r \in {IndexStackLoop(stacks, slices, mid + 1, hi, left) :
                         left \in {IndexStackLoop(stacks, slices, lo, mid, c)}} : TRUE

\* The outcome of a call that ended in a RangeError (invalid typed array
\* length); warned records whether console.warn ran before it.
Thrown(vertexCount, indexCount, warned) ==
    [threw |-> TRUE, warned |-> warned,
     positions |-> NoArray, uvs |-> NoArray, indices |-> NoArray,
     vertexCount |-> vertexCount, indexCount |-> indexCount]

createSphereMesh(radius, stacks, slices) ==
    LET vertexCount == VertexCountOf(stacks, slices)
        warned == vertexCount > MaxVertexCount
        indexCount == IndexCountOf(stacks, slices)
    IN  IF vertexCount < 0
        THEN Thrown(vertexCount, indexCount, warned)
        ELSE LET v == VertexStackLoop(radius, stacks, slices, 0, stacks,
                          [positions |-> NewTypedArray(vertexCount * 3, PZero),
                           uvs |-> NewTypedArray(vertexCount * 2, FZero),
                           vi |-> 0])
             IN  IF indexCount < 0
                 THEN Thrown(vertexCount, indexCount, warned)
                 ELSE LET i == IndexStackLoop(stacks, slices, 0, stacks - 1,
                                   [indices |-> NewTypedArray(indexCount, 0),
                                    ii |-> 0])
                      IN  [threw |-> FALSE, warned |-> warned,
                           positions |-> v.positions, uvs |-> v.uvs,
                           indices |-> i.indices,
                           vertexCount |-> vertexCount,
                           indexCount |-> indexCount]

----------------------------------------------------------------------------
(* The mesh caller. *)

SmallArgs ==
    Radii \X ((-MaxNegative)..MaxStacks) \X ((-MaxNegative)..MaxSlices)

\* The caller holds no mesh.
NoMesh ==
    [threw |-> FALSE, warned |-> FALSE,
     positions |-> NoArray, uvs |-> NoArray, indices |-> NoArray,
     vertexCount |-> 0, indexCount |-> 0]

\* No matrix has been allocated and no matrix operation is pending.
NoCall == [op |-> "none", args |-> <<>>, ret |-> 0]

MatIdle ==
    /\ heap = <<>>
    /\ lastCall = NoCall
    /\ script = <<>>

MeshInit ==
    /\ meshPc = "idle"
    /\ meshArgs \in SmallArgs
    /\ mesh = NoMesh
    /\ MatIdle
    /\ AppIdle
    /\ gl = NoGL

\* The same caller, also requesting the large meshes.
MeshInitLarge ==
    /\ meshPc = "idle"
    /\ meshArgs \in SmallArgs \cup LargeArgs
    /\ mesh = NoMesh
    /\ MatIdle
    /\ AppIdle
    /\ gl = NoGL

\* const mesh = createSphereMesh(radius, stacks, slices): the call returns a
\* mesh or ends in the RangeError of a typed-array constructor.
MeshCall ==
    /\ meshPc = "idle"
    /\ mesh' = createSphereMesh(meshArgs[1], meshArgs[2], meshArgs[3])
    /\ meshPc' = IF mesh'.threw THEN "thrown" ELSE "returned"
    /\ UNCHANGED <<meshArgs, matVars, appVars, gl>>

\* The caller discards the mesh and prepares the next request.
MeshNext ==
    /\ meshPc \in {"returned", "thrown"}
    /\ meshArgs' \in SmallArgs
    /\ mesh' = NoMesh
    /\ meshPc' = "idle"
    /\ UNCHANGED <<matVars, appVars, gl>>

Init == MeshInit

Next == MeshCall \/ MeshNext

SpecMesh == Init /\ [][Next]_vars

SpecMeshLarge == MeshInitLarge /\ [][Next]_vars

\* Requests on either side of the warning threshold: 65535 vertices, 65536
\* vertices, and 65536 vertices from two negative counts.
EdgeArgs == { <<1, 254, 256>>, <<1, 255, 255>>, <<1, -257, -257>> }

\* The same caller, also requesting the meshes at the threshold.
MeshInitEdge ==
    /\ meshPc = "idle"
    /\ meshArgs \in SmallArgs \cup EdgeArgs
    /\ mesh = NoMesh
    /\ MatIdle
    /\ AppIdle
    /\ gl = NoGL

SpecMeshEdge == MeshInitEdge /\ [][Next]_vars

----------------------------------------------------------------------------
(* mat4: column-major 4x4 matrices, each a Float32Array(16) on the heap.    *)
(* Elements are integers, which a Float32Array holds exactly.  Every        *)
(* operation takes the heap and returns [heap, ret]: the heap after the     *)
(* call and the id of the array it returns.                                 *)

\* new Float32Array(16): a new object, all elements 0.
NewFloat32Array16(h) ==
    [heap |-> Append(h, [i \in 0..15 |-> 0]), ret |-> Len(h) + 1]

\* m[i] = v
SetAt(h, m, i, v) == [h EXCEPT ![m][i] = v]

\* An identity that leaves m[15] at 0.
identity_NoW(h) ==
    LET a == NewFloat32Array16(h)
        m == a.ret
    IN  [heap |-> SetAt(SetAt(SetAt(a.heap, m, 0, 1), m, 5, 1), m, 10, 1),
         ret |-> m]

identity(h) ==
    LET a == NewFloat32Array16(h)
        m == a.ret
        h1 == SetAt(a.heap, m, 0, 1)
        h2 == SetAt(h1, m, 5, 1)
        h3 == SetAt(h2, m, 10, 1)
        h4 == SetAt(h3, m, 15, 1)
    IN  [heap |-> h4, ret |-> m]

\* A multiply that writes its result into a instead of into a new array.
MultiplyOut_InPlace(h, a) == [heap |-> h, ret |-> a]

\* const out = new Float32Array(16) of multiply(a, b).
MultiplyOut(h, a) == NewFloat32Array16(h)

\* An element that reads a row-major (the product of a transposed and b).
MultiplyElem_RowMajorA(h, a, b, col, row) ==
    h[a][row * 4]     * h[b][col * 4]     +
    h[a][row * 4 + 1] * h[b][col * 4 + 1] +
    h[a][row * 4 + 2] * h[b][col * 4 + 2] +
    h[a][row * 4 + 3] * h[b][col * 4 + 3]

\* An element with the operands exchanged (the product b * a).
MultiplyElem_Exchanged(h, a, b, col, row) ==
    h[b][row]      * h[a][col * 4]     +
    h[b][4 + row]  * h[a][col * 4 + 1] +
    h[b][8 + row]  * h[a][col * 4 + 2] +
    h[b][12 + row] * h[a][col * 4 + 3]

\* The value assigned to out[col * 4 + row].
MultiplyElem(h, a, b, col, row) ==
    h[a][row]      * h[b][col * 4]     +
    h[a][4 + row]  * h[b][col * 4 + 1] +
    h[a][8 + row]  * h[b][col * 4 + 2] +
    h[a][12 + row] * h[b][col * 4 + 3]

\* for (let row = 0; row < 4; row++)
RECURSIVE MultiplyRowLoop(_, _, _, _, _, _)
MultiplyRowLoop(h, a, b, out, col, row) ==
    IF row < 4
    THEN CHOOSE r \in
             { MultiplyRowLoop(h1, a, b, out, col, row + 1) :
                   h1 \in { SetAt(h, out, col * 4 + row,
                                  MultiplyElem(h, a, b, col, row)) } } : TRUE
    ELSE h

\* for (let col = 0; col < 4; col++)
RECURSIVE MultiplyColLoop(_, _, _, _, _)
MultiplyColLoop(h, a, b, out, col) ==
    IF col < 4
    THEN CHOOSE r \in
             { MultiplyColLoop(h1, a, b, out, col + 1) :
                   h1 \in { MultiplyRowLoop(h, a, b, out, col, 0) } } : TRUE
    ELSE h

multiply(h, a, b) ==
    LET o == MultiplyOut(h, a)
    IN  [heap |-> MultiplyColLoop(o.heap, a, b, o.ret, 0), ret |-> o.ret]

\* The value of the i-th parameter: the argument passed, or the default dflt
\* when the call passes fewer than i arguments.
Param(args, i, dflt) == IF Len(args) >= i THEN args[i] ELSE dflt

\* A translation that stores the offsets in the last row.
translation_LastRow(h, args) ==
    LET a == identity(h)
        m == a.ret
    IN  [heap |-> SetAt(SetAt(SetAt(a.heap, m, 3, args[1]), m, 7, args[2]),
                        m, 11, Param(args, 3, 0)),
         ret |-> m]

\* translation(tx, ty, tz = 0), args = <<tx, ty>> or <<tx, ty, tz>>.
translation(h, args) ==
    LET tx == args[1]
        ty == args[2]
        tz == Param(args, 3, 0)
        a == identity(h)
        m == a.ret
        h1 == SetAt(a.heap, m, 12, tx)
        h2 == SetAt(h1, m, 13, ty)
        h3 == SetAt(h2, m, 14, tz)
    IN  [heap |-> h3, ret |-> m]

\* rotationZ(rad), args = <<c, s>>: the values Math.cos(rad) and Math.sin(rad)
\* returned for the angle.
rotationZ(h, args) ==
    LET c == args[1]
        s == args[2]
        a == identity(h)
        m == a.ret
        h1 == SetAt(a.heap, m, 0, c)
        h2 == SetAt(h1, m, 1, s)
        h3 == SetAt(h2, m, 4, -s)
        h4 == SetAt(h3, m, 5, c)
    IN  [heap |-> h4, ret |-> m]

\* scaling(sx, sy, sz = 1), args = <<sx, sy>> or <<sx, sy, sz>>.
scaling(h, args) ==
    LET sx == args[1]
        sy == args[2]
        sz == Param(args, 3, 1)
        a == identity(h)
        m == a.ret
        h1 == SetAt(a.heap, m, 0, sx)
        h2 == SetAt(h1, m, 5, sy)
        h3 == SetAt(h2, m, 10, sz)
    IN  [heap |-> h3, ret |-> m]

\* ortho(left, right, bottom, top, near = -1, far = 1), args of 4 to 6
\* numbers, on arguments whose quotients are integers.
ortho(h, args) ==
    LET left == args[1]
        right == args[2]
        bottom == args[3]
        top == args[4]
        near == Param(args, 5, -1)
        far == Param(args, 6, 1)
        a == NewFloat32Array16(h)
        m == a.ret
        rl == right - left
        tb == top - bottom
        fn == far - near
        h1 == SetAt(a.heap, m, 0, 2 \div rl)
        h2 == SetAt(h1, m, 5, 2 \div tb)
        h3 == SetAt(h2, m, 10, (-2) \div fn)
        h4 == SetAt(h3, m, 12, (-(right + left)) \div rl)
        h5 == SetAt(h4, m, 13, (-(top + bottom)) \div tb)
        h6 == SetAt(h5, m, 14, (-(far + near)) \div fn)
        h7 == SetAt(h6, m, 15, 1)
    IN  [heap |-> h7, ret |-> m]

\* The operation a call names, applied to the heap.
Perform(h, call) ==
    CASE call.op = "identity" -> identity(h)
      [] call.op = "multiply" -> multiply(h, call.args[1], call.args[2])
      [] call.op = "translation" -> translation(h, call.args)
      [] call.op = "rotationZ" -> rotationZ(h, call.args)
      [] call.op = "scaling" -> scaling(h, call.args)
      [] call.op = "ortho" -> ortho(h, call.args)

Call(op, args) == [op |-> op, args |-> args]

\* The caller performs one matrix operation and keeps what it returns.
Do(call) ==
    LET r == Perform(heap, call)
    IN  /\ heap' = r.heap
        /\ lastCall' = [op |-> call.op, args |-> call.args, ret |-> r.ret]

----------------------------------------------------------------------------
(* SpecMat: a caller that performs matrix operations in any order. *)

\* Most arrays the caller allocates.
MaxHeap == 3

\* Offsets, with and without tz.
TranslationArgs == { <<1, 0, 0>>, <<1, 2>>, <<-1, 2, 3>> }

\* Values of (Math.cos, Math.sin).
RotationArgs == { <<1, 0>>, <<0, 1>>, <<-1, 0>> }

\* Factors, with and without sz.
ScalingArgs == { <<2, 2, 2>>, <<2, 3>>, <<-1, 1, 0>> }

\* Boxes whose extents divide the numerators.
OrthoArgs == { <<-1, 1, -1, 1>>, <<0, 2, 0, 1, -1, 1>>, <<-1, 1, -2, 2, 1, 3>> }

MatInit ==
    /\ MatIdle
    /\ meshPc = "idle"
    /\ meshArgs = <<1, 1, 1>>
    /\ mesh = NoMesh
    /\ AppIdle
    /\ gl = NoGL

MatIdentity ==
    /\ Len(heap) < MaxHeap
    /\ Do(Call("identity", <<>>))
    /\ UNCHANGED <<script, meshVars, appVars, gl>>

MatMultiply ==
    /\ Len(heap) < MaxHeap
    /\ \E a \in 1..Len(heap), b \in 1..Len(heap) :
           Do(Call("multiply", <<a, b>>))
    /\ UNCHANGED <<script, meshVars, appVars, gl>>

MatTranslation ==
    /\ Len(heap) < MaxHeap
    /\ \E args \in TranslationArgs : Do(Call("translation", args))
    /\ UNCHANGED <<script, meshVars, appVars, gl>>

MatRotationZ ==
    /\ Len(heap) < MaxHeap
    /\ \E args \in RotationArgs : Do(Call("rotationZ", args))
    /\ UNCHANGED <<script, meshVars, appVars, gl>>

MatScaling ==
    /\ Len(heap) < MaxHeap
    /\ \E args \in ScalingArgs : Do(Call("scaling", args))
    /\ UNCHANGED <<script, meshVars, appVars, gl>>

MatOrtho ==
    /\ Len(heap) < MaxHeap
    /\ \E args \in OrthoArgs : Do(Call("ortho", args))
    /\ UNCHANGED <<script, meshVars, appVars, gl>>

MatNext ==
    \/ MatIdentity
    \/ MatMultiply
    \/ MatTranslation
    \/ MatRotationZ
    \/ MatScaling
    \/ MatOrtho

SpecMat == MatInit /\ [][MatNext]_vars

----------------------------------------------------------------------------
(* SpecScript: a caller that performs a fixed sequence of operations. *)

\* Coordinates of the offsets and points run over -MaxCoord..MaxCoord.
MaxCoord == 2

Coords == (-MaxCoord)..MaxCoord

\* The array an operation returns when it is called on an empty heap.
ValueOf(r) == r.heap[r.ret]

\* Arrays a caller may hold: results of the constructors, and arrays it filled
\* itself (Mat4 is any Float32Array).
DenseA == [i \in 0..15 |-> i - 7]
DenseB == [i \in 0..15 |-> ((i * i) % 5) - 2]
SingleEntry == [i \in 0..15 |-> IF i = 7 THEN 1 ELSE 0]
AllZero == [i \in 0..15 |-> 0]

MatSet ==
    { ValueOf(identity(<<>>)),
      ValueOf(translation(<<>>, <<1, 0, 0>>)),
      ValueOf(translation(<<>>, <<1, 2, 3>>)),
      ValueOf(scaling(<<>>, <<2, 2, 2>>)),
      ValueOf(scaling(<<>>, <<2, 3>>)),
      ValueOf(rotationZ(<<>>, <<0, 1>>)),
      ValueOf(ortho(<<>>, <<0, 2, 0, 1, -1, 1>>)),
      DenseA, DenseB, SingleEntry, AllZero }

\* With A, B, C in arrays 1, 2, 3: AB (4), (AB)C (5), BC (6), A(BC) (7),
\* I (8), IA (9), AI (10).
AlgScript ==
    << Call("multiply", <<1, 2>>),
       Call("multiply", <<4, 3>>),
       Call("multiply", <<2, 3>>),
       Call("multiply", <<1, 6>>),
       Call("identity", <<>>),
       Call("multiply", <<8, 1>>),
       Call("multiply", <<1, 8>>) >>

\* A single translation(tx, ty) or translation(tx, ty, tz).
TranslationScripts ==
    { <<Call("translation", args)>> :
          args \in (Coords \X Coords) \cup (Coords \X Coords \X Coords) }

ScriptInit ==
    /\ \/ /\ heap \in MatSet \X MatSet \X MatSet
          /\ script = AlgScript
       \/ /\ heap = <<>>
          /\ script \in TranslationScripts
    /\ lastCall = NoCall
    /\ meshPc = "idle"
    /\ meshArgs = <<1, 1, 1>>
    /\ mesh = NoMesh
    /\ AppIdle
    /\ gl = NoGL

\* The caller performs the next operation of its script.
ScriptStep ==
    /\ script # <<>>
    /\ Do(Head(script))
    /\ script' = Tail(script)
    /\ UNCHANGED <<meshVars, appVars, gl>>

ScriptNext == ScriptStep

SpecScript == ScriptInit /\ [][ScriptNext]_vars

----------------------------------------------------------------------------
(* Properties of createSphereMesh, checked under SpecMesh. *)

ArgRadius == meshArgs[1]
ArgStacks == meshArgs[2]
ArgSlices == meshArgs[3]

\* The call has ended, one way or the other.
MeshCalled == meshPc \in {"returned", "thrown"}

\* The generator's domain: at least one stack and one slice.
ValidArgs == ArgStacks >= 1 /\ ArgSlices >= 1

\* The number the triangulation intends at position p of indices: corner
\* p % 6 of cell p \div 6, cells counted stack-major, slice-minor.
IntendedIndex(slices, p) ==
    LET cell == p \div 6
        stack == cell \div slices
        slice == cell % slices
        first == stack * (slices + 1) + slice
        second == first + (slices + 1)
    IN  <<first, second, first + 1, first + 1, second, second + 1>>[(p % 6) + 1]

\* C1: for stacks >= 1 and slices >= 1 the call returns, with
\* vertexCount = (stacks+1)*(slices+1), indexCount = stacks*slices*6,
\* positions of length 3*vertexCount, uvs of length 2*vertexCount and indices
\* of length indexCount; createSphereMesh(1, 2, 4) has 15 vertices and 48
\* indices.
C1_Shape ==
    (MeshCalled /\ ValidArgs) =>
        /\ meshPc = "returned"
        /\ mesh.vertexCount = (ArgStacks + 1) * (ArgSlices + 1)
        /\ mesh.indexCount = ArgStacks * ArgSlices * 6
        /\ mesh.positions.length = 3 * mesh.vertexCount
        /\ mesh.uvs.length = 2 * mesh.vertexCount
        /\ mesh.indices.length = mesh.indexCount
        /\ (meshArgs = <<1, 2, 4>> =>
                mesh.vertexCount = 15 /\ mesh.indexCount = 48)

C1_Witness ==
    /\ meshPc = "returned"
    /\ meshArgs = <<1, 2, 4>>
    /\ mesh.positions.length = 45
    /\ mesh.uvs.length = 30
    /\ mesh.indices.length = 48

\* C2: for stacks >= 1 and slices >= 1 every value stored in indices is a
\* valid vertex reference, 0 <= index < vertexCount.
C2_IndicesInRange ==
    (meshPc = "returned" /\ ValidArgs) =>
        \A p \in DOMAIN mesh.indices.elems :
            /\ mesh.indices.elems[p] >= 0
            /\ mesh.indices.elems[p] < mesh.vertexCount

\* The last corner of the last cell refers to the last vertex.
C2_Witness ==
    /\ meshPc = "returned"
    /\ ValidArgs
    /\ mesh.indexCount > 0
    /\ mesh.indices.elems[mesh.indexCount - 1] = mesh.vertexCount - 1

C4_VertexLayout ==
    (meshPc = "returned" /\ ValidArgs) =>
        /\ \A p \in DOMAIN mesh.uvs.elems :
              LET vi == p \div 2
                  stack == vi \div (ArgSlices + 1)
                  slice == vi % (ArgSlices + 1)
                  f == mesh.uvs.elems[p]
              IN  /\ FInUnit(f)
                  /\ p % 2 = 0 =>
                        /\ f = FroundDiv(slice, ArgSlices)
                        /\ (slice = 0 <=> f = FZero)
                        /\ (slice = ArgSlices <=> f = FOne)
                  /\ p % 2 = 1 =>
                        /\ f = FroundDiv(stack, ArgStacks)
                        /\ (stack = 0 <=> f = FZero)
                        /\ (stack = ArgStacks <=> f = FOne)
        /\ \A p \in DOMAIN mesh.positions.elems :
              LET vi == p \div 3
                  stack == vi \div (ArgSlices + 1)
                  slice == vi % (ArgSlices + 1)
              IN  mesh.positions.elems[p] =
                      <<(p % 3) + 1, ArgRadius, stack,
                        IF p % 3 = 1 THEN 0 ELSE slice>>

\* createSphereMesh(1, 3, 4): vertex (2, 1) is vertex 11, its u is 1/4 and its
\* v the float32 nearest 2/3; vertex (2, 0) has u = 0 and vertex (2, 4), on
\* the seam, has u = 1.
C4_Witness ==
    /\ meshPc = "returned"
    /\ meshArgs = <<1, 3, 4>>
    /\ mesh.uvs.elems[22] = <<1, 2>>
    /\ mesh.uvs.elems[23] = <<11184811, 24>>
    /\ mesh.uvs.elems[20] = FZero
    /\ mesh.uvs.elems[28] = FOne
    /\ mesh.positions.elems[33] = PosX(1, 2, 1)

\* C11: the capacity warning is logged exactly when
\* (stacks+1)*(slices+1) > 65535; a call that warned still returns, with
\* vertexCount, indexCount and the three array lengths given by the same
\* formulas; and when no warning is logged every index of a mesh of
\* stacks, slices >= 1 fits 16 bits and is stored as intended.
C11_WarningThreshold ==
    MeshCalled =>
        /\ mesh.warned <=> (ArgStacks + 1) * (ArgSlices + 1) > 65535
        /\ mesh.warned =>
               /\ meshPc = "returned"
               /\ mesh.vertexCount = (ArgStacks + 1) * (ArgSlices + 1)
               /\ mesh.indexCount = ArgStacks * ArgSlices * 6
               /\ mesh.positions.length = 3 * mesh.vertexCount
               /\ mesh.uvs.length = 2 * mesh.vertexCount
               /\ mesh.indices.length = mesh.indexCount
        /\ (~mesh.warned /\ ValidArgs) =>
               \A p \in DOMAIN mesh.indices.elems :
                   /\ IntendedIndex(ArgSlices, p) < 65536
                   /\ mesh.indices.elems[p] = IntendedIndex(ArgSlices, p)

\* The mesh of 65536 vertices: warned, returned, last index 65535.
C11_Witness ==
    /\ meshPc = "returned"
    /\ meshArgs = <<1, 255, 255>>
    /\ mesh.warned
    /\ mesh.vertexCount = 65536
    /\ mesh.indices.elems[mesh.indexCount - 1] = 65535

\* C10 as stated: createSphereMesh never raises, for any integer stacks and
\* slices, and for stacks < 1 or slices < 1 no triangle of the returned mesh
\* refers to a vertex that does not exist.
C10_TotalOnDegenerate ==
    /\ meshPc # "thrown"
    /\ (meshPc = "returned" /\ ~ValidArgs) =>
           \A p \in DOMAIN mesh.indices.elems :
               mesh.indices.elems[p] < mesh.vertexCount

----------------------------------------------------------------------------
(* Properties of the matrix operations. *)

\* Row row of M * v for a column-major M and a column vector v = <<x, y, z, w>>.
RECURSIVE RowDot(_, _, _, _)
RowDot(M, v, row, k) ==
    IF k > 3 THEN 0 ELSE M[k * 4 + row] * v[k + 1] + RowDot(M, v, row, k + 1)

\* M * v.
Apply(M, v) ==
    <<RowDot(M, v, 0, 0), RowDot(M, v, 1, 0),
      RowDot(M, v, 2, 0), RowDot(M, v, 3, 0)>>

\* Entry (row, col) of the matrix product A * B.
RECURSIVE ProductEntry(_, _, _, _, _)
ProductEntry(A, B, row, col, k) ==
    IF k > 3 THEN 0
    ELSE A[k * 4 + row] * B[col * 4 + k] + ProductEntry(A, B, row, col, k + 1)

Vectors == { <<0, 0, 0, 1>>, <<1, 0, 0, 0>>, <<0, 1, 0, 0>>, <<0, 0, 1, 0>>,
             <<1, 2, 3, 1>>, <<-2, 1, 0, 2>> }

Origin == <<0, 0, 0, 1>>

\* C5: multiply(a, b) is the matrix product a * b under column-major storage,
\* out[col*4+row] = sum over k of a[k*4+row] * b[col*4+k]; applying it to a
\* vector applies b and then a; multiply(scaling(2,2,2), translation(1,0,0))
\* takes (0,0,0,1) to (2,0,0,1).
C5_MultiplyIsProduct ==
    lastCall.op = "multiply" =>
        LET A == heap[lastCall.args[1]]
            B == heap[lastCall.args[2]]
            out == heap[lastCall.ret]
        IN  /\ \A row \in 0..3, col \in 0..3 :
                   out[col * 4 + row] = ProductEntry(A, B, row, col, 0)
            /\ \A v \in Vectors : Apply(out, v) = Apply(A, Apply(B, v))
            /\ (/\ A = ValueOf(scaling(<<>>, <<2, 2, 2>>))
                /\ B = ValueOf(translation(<<>>, <<1, 0, 0>>)))
                   => Apply(out, Origin) = <<2, 0, 0, 1>>

C5_Witness ==
    /\ lastCall.op = "multiply"
    /\ heap[lastCall.args[1]] = ValueOf(scaling(<<>>, <<2, 2, 2>>))
    /\ heap[lastCall.args[2]] = ValueOf(translation(<<>>, <<1, 0, 0>>))
    /\ Apply(heap[lastCall.ret], Origin) = <<2, 0, 0, 1>>

\* C6: multiply(identity(), M) and multiply(M, identity()) both equal M,
\* element by element.
C6_IdentityLaws ==
    (script = <<>> /\ Len(heap) = 10) =>
        /\ heap[9] = heap[1]
        /\ heap[10] = heap[1]

C6_Witness ==
    /\ script = <<>>
    /\ Len(heap) = 10
    /\ heap[1] = DenseA
    /\ heap[9] = DenseA
    /\ heap[10] = DenseA

\* C7: multiply(multiply(A, B), C) equals multiply(A, multiply(B, C)), element
\* by element, for matrices of integer entries.
C7_Associative ==
    Len(heap) >= 7 => heap[5] = heap[7]

\* Two dense matrices that do not commute, and a translation.
C7_Witness ==
    /\ Len(heap) >= 7
    /\ heap[1] = DenseA
    /\ heap[2] = DenseB
    /\ heap[3] = ValueOf(translation(<<>>, <<1, 2, 3>>))
    /\ heap[5] = heap[7]
    /\ heap[5] # AllZero
    /\ heap[4] # ValueOf(multiply(<<DenseB, DenseA>>, 1, 2))

\* C8: translation(tx, ty, tz) takes the origin (0,0,0,1) to (tx,ty,tz,1) and
\* any point (x,y,z,1) to (x+tx, y+ty, z+tz, 1); a call without tz has tz = 0.
C8_TranslationMovesPoints ==
    lastCall.op = "translation" =>
        LET M == heap[lastCall.ret]
            tx == lastCall.args[1]
            ty == lastCall.args[2]
            tz == IF Len(lastCall.args) = 3 THEN lastCall.args[3] ELSE 0
        IN  /\ Apply(M, Origin) = <<tx, ty, tz, 1>>
            /\ \A x \in Coords, y \in Coords, z \in Coords :
                   Apply(M, <<x, y, z, 1>>) = <<x + tx, y + ty, z + tz, 1>>

\* translation(2, -1), without tz.
C8_Witness ==
    /\ lastCall.op = "translation"
    /\ lastCall.args = <<2, -1>>
    /\ Apply(heap[lastCall.ret], <<1, 1, 1, 1>>) = <<3, 0, 1, 1>>

\* C9: every matrix operation returns a newly allocated array of 16 elements,
\* one that no earlier call returned, and leaves every existing array, its
\* arguments included, as it was; also when multiply gets the same array twice.
C9_FreshResult ==
    [][ /\ Len(heap') = Len(heap) + 1
        /\ lastCall'.ret = Len(heap')
        /\ lastCall'.ret \notin 1..Len(heap)
        /\ DOMAIN heap'[lastCall'.ret] = 0..15
        /\ \A id \in 1..Len(heap) : heap'[id] = heap[id] ]_vars

\* multiply(a, a) of an array whose square differs from it.
C9_Witness ==
    /\ lastCall.op = "multiply"
    /\ lastCall.args[1] = lastCall.args[2]
    /\ lastCall.ret # lastCall.args[1]
    /\ heap[lastCall.ret] # heap[lastCall.args[1]]

----------------------------------------------------------------------------
(* The hash router and the bootstrap of the application.                    *)
(* A string is the sequence of its tokens: "" is <<>>, "#" is <<"#">>,      *)
(* "#/" is <<"#", "/">> and "#/triangle01" is <<"#", "/", "triangle01">>.   *)
(* A renderer is known by its name.                                         *)

HomePath == <<"#", "/">>

LabPath(name) == <<"#", "/", name>>

\* The registry of the labs shown on the home page.
labs ==
    << [title |-> "Triangle01", path |-> LabPath("triangle01")],
       [title |-> "Transform01", path |-> LabPath("transform01")],
       [title |-> "Texture01", path |-> LabPath("texture01")],
       [title |-> "Projection01", path |-> LabPath("projection01")],
       [title |-> "Sphere01", path |-> LabPath("sphere01")] >>

\* The route table that bootstrap() registers.
BootRoutes ==
    << [path |-> HomePath, render |-> "renderHome"],
       [path |-> LabPath("triangle01"), render |-> "renderTriangle01"],
       [path |-> LabPath("transform01"), render |-> "renderTransform01"],
       [path |-> LabPath("projection01"), render |-> "renderProjection01"] >>

\* Other tables a caller of registerRoutes may pass: one with two entries
\* of the same path, and the empty one.
OtherRoutes ==
    { << [path |-> HomePath, render |-> "renderHome"],
         [path |-> LabPath("transform01"), render |-> "renderTransform01"],
         [path |-> LabPath("transform01"), render |-> "renderProjection01"] >>,
      << >> }

\* s.replace(/^#/, "")
StripHash(s) == IF s # <<>> /\ Head(s) = "#" THEN Tail(s) ELSE s

\* What location.hash reads once the fragment of the URL is f: the empty
\* fragment reads as the empty string.
HashOf(f) == IF f = <<>> THEN <<>> ELSE <<"#">> \o f

\* The fragments a user reaches by a link or by typing.
Fragments ==
    { <<>>, <<"/">>, <<"/", "transform01">>, <<"/", "texture01">>,
      <<"/", "nope">> }

Find_LastMatch(routes, path) ==
    IF \E i \in DOMAIN routes : routes[i].path = path
    THEN CHOOSE i \in DOMAIN routes :
             /\ routes[i].path = path
             /\ \A j \in (i + 1)..Len(routes) : routes[j].path # path
    ELSE 0

\* routes.find(r => r.path === path): the index of the first such entry, or
\* 0 for undefined.
Find(routes, path) ==
    IF \E i \in DOMAIN routes : routes[i].path = path
    THEN CHOOSE i \in DOMAIN routes :
             /\ routes[i].path = path
             /\ \A j \in 1..(i - 1) : routes[j].path # path
    ELSE 0

\* One operation on the outlet.
OutletOp(kind, what) == [kind |-> kind, what |-> what]

\* navigate() with the router r while location.hash reads hash: what
\* location.hash reads afterwards and the operations done on the outlet.
navigate(r, hash) ==
    IF ~r.outlet
    THEN [locationHash |-> hash, ops |-> <<>>, replaced |-> FALSE]
    ELSE LET h == IF hash = <<>> THEN HomePath ELSE hash
             normalised == IF h = <<"#">> THEN HomePath ELSE h
             replaced == hash = <<>> \/ hash = <<"#">>
             matched == Find(r.routes, normalised)
             dispatch ==
                 IF matched # 0
                 THEN OutletOp("render", r.routes[matched].render)
                 ELSE IF r.notFoundRenderer # "null"
                      THEN OutletOp("render", r.notFoundRenderer)
                      ELSE OutletOp("textContent", "Page not found")
         IN [locationHash |-> IF replaced THEN HomePath ELSE hash,
             ops |-> << OutletOp("innerHTML", ""), dispatch >>,
             replaced |-> replaced]

\* The effect of one navigate() call on the state.
DoNavigate(r, hash) ==
    LET n == navigate(r, hash)
    IN /\ locationHash' = n.locationHash
       /\ lastNav' = [ran |-> TRUE, ops |-> n.ops, replaced |-> n.replaced,
                      hash |-> hash, call |-> 1 - lastNav.call]

\* The router as bootstrap() leaves it.
BootRouter ==
    [routes |-> BootRoutes, outlet |-> TRUE,
     notFoundRenderer |-> "renderNotFound", listening |-> TRUE]

\* The fragment of the URL becomes f: location.hash changes and, if it
\* did and the router listens, the hashchange listener runs navigate().
SetFragment(f) ==
    /\ HashOf(f) # locationHash
    /\ IF router.listening
       THEN DoNavigate(router, HashOf(f))
       ELSE /\ locationHash' = HashOf(f)
            /\ lastNav' = lastNav
    /\ router' = router

\* location.hash = v: a leading "#" of v is dropped and the rest becomes the
\* fragment.
AssignHash(v) == SetFragment(StripHash(v))

\* The outlet shows the home page.
HomeShown ==
    /\ lastNav.ops # <<>>
    /\ lastNav.ops[Len(lastNav.ops)] = OutletOp("render", "renderHome")

CoreIdle ==
    /\ meshPc = "idle"
    /\ meshArgs = <<1, 1, 1>>
    /\ mesh = NoMesh
    /\ MatIdle

coreVars == <<meshPc, meshArgs, mesh, heap, lastCall, script>>

\* The document is loaded at some URL; no script has run.
RouterInit ==
    /\ CoreIdle
    /\ router = NoRouter
    /\ locationHash \in { HashOf(f) : f \in Fragments }
    /\ lastNav = NoNav
    /\ tf = NoPage
    /\ sp = NoPage
    /\ tex = NoPage
    /\ tri = NoPage
    /\ gl = NoGL

\* registerRoutes(entries, outletEl, notFound) followed by startRouter().
Bootstrap ==
    /\ router = NoRouter
    /\ router' = BootRouter
    /\ DoNavigate(router', locationHash)
    /\ UNCHANGED <<coreVars, gl, pageVars>>

\* registerRoutes(entries, outletEl) or registerRoutes(entries, outletEl,
\* notFound) by another caller.
RouterRegister ==
    /\ \E entries \in OtherRoutes \cup {BootRoutes},
          notFound \in {"null", "renderNotFound"} :
           router' = [router EXCEPT !.routes = entries, !.outlet = TRUE,
                                    !.notFoundRenderer = notFound]
    /\ UNCHANGED <<locationHash, lastNav, coreVars, gl, pageVars>>

\* startRouter()
RouterStart ==
    /\ ~router.listening
    /\ router' = [router EXCEPT !.listening = TRUE]
    /\ DoNavigate(router, locationHash)
    /\ UNCHANGED <<coreVars, gl, pageVars>>

\* navigate(), called directly.
RouterNavigate ==
    /\ DoNavigate(router, locationHash)
    /\ UNCHANGED <<router, coreVars, gl, pageVars>>

\* The user follows a link or edits the URL.
HashChange ==
    /\ \E f \in Fragments : SetFragment(f)
    /\ UNCHANGED <<coreVars, gl, pageVars>>

\* The user clicks the card of labs[i] on the home page:
\* location.hash = lab.path.replace(/^#/, "")
ClickCardOf(i) ==
    /\ HomeShown
    /\ AssignHash(StripHash(labs[i].path))
    /\ UNCHANGED <<coreVars, gl, pageVars>>

ClickCard == \E i \in DOMAIN labs : ClickCardOf(i)

RouterNext ==
    \/ Bootstrap
    \/ RouterRegister
    \/ RouterStart
    \/ RouterNavigate
    \/ HashChange
    \/ ClickCard

SpecRouter == RouterInit /\ [][RouterNext]_vars

----------------------------------------------------------------------------
(* Properties of the router. *)

\* The hash navigate() dispatches on when location.hash reads h.
EffectiveHash(h) == IF h \in { <<>>, <<"#">> } THEN HomePath ELSE h

\* The least element of a non-empty set of numbers.
Least(S) == CHOOSE i \in S : \A j \in S : i <= j

\* C16: every navigate() call made after registerRoutes first empties the
\* outlet and then does exactly one of: invoke the renderer of the first
\* registered route whose path equals the current hash (an empty hash or
\* "#" counts as "#/", and the URL is then replaced with "#/"), else invoke
\* the not-found renderer if one is registered, else set the outlet text to
\* "Page not found"; no navigation invokes two renderers, and a navigate()
\* before any registerRoutes does nothing.
C16_NavigateDispatch ==
    [][lastNav'.call # lastNav.call =>
          LET r == router'
              h == lastNav'.hash
              ops == lastNav'.ops
              matching ==
                  { i \in DOMAIN r.routes : r.routes[i].path = EffectiveHash(h) }
          IN IF ~r.outlet
             THEN /\ r.routes = <<>>
                  /\ ops = <<>>
                  /\ locationHash' = h
             ELSE /\ Len(ops) = 2
                  /\ ops[1] = OutletOp("innerHTML", "")
                  /\ ops[2] =
                         IF matching # {}
                         THEN OutletOp("render",
                                       r.routes[Least(matching)].render)
                         ELSE IF r.notFoundRenderer # "null"
                              THEN OutletOp("render", r.notFoundRenderer)
                              ELSE OutletOp("textContent", "Page not found")
                  /\ locationHash' = EffectiveHash(h)
    ]_vars

\* A navigation on "#/transform01" with two routes of that path registered
\* has invoked the renderer of the first.
C16_Witness ==
    /\ lastNav.ran
    /\ router.outlet
    /\ Len(router.routes) = 3
    /\ router.routes[2].path = router.routes[3].path
    /\ lastNav.hash = LabPath("transform01")
    /\ locationHash = LabPath("transform01")
    /\ lastNav.ops =
           << OutletOp("innerHTML", ""),
              OutletOp("render", "renderTransform01") >>

\* The renderers of the lab pages.
PageRenderers ==
    { "renderTriangle01", "renderTransform01", "renderTexture01",
      "renderProjection01", "renderSphere01" }

\* C17: every lab of the labs registry is reachable: a click on its home
\* card sets the hash to the path of the entry and the router then invokes
\* a page renderer, never the not-found renderer.
C17_LabsReachable ==
    [][\A i \in DOMAIN labs :
           (router = BootRouter /\ ClickCardOf(i)) =>
               /\ locationHash' = labs[i].path
               /\ lastNav'.ops[2].kind = "render"
               /\ lastNav'.ops[2].what \in PageRenderers
    ]_vars

----------------------------------------------------------------------------
(* The WebGL helpers: createGLCanvas, compileShader, createProgram.  What   *)
(* the browser and the driver answer is the environment env: which context  *)
(* types getContext grants, whether createShader and createProgram return   *)
(* an object, and whether each shader compiles and the program links.       *)

\* The context types createGLCanvas names.
ContextTypes == { "webgl2", "webgl", "experimental-webgl" }

\* gl.VERTEX_SHADER and gl.FRAGMENT_SHADER.
ShaderTypes == { "VERTEX_SHADER", "FRAGMENT_SHADER" }

\* Every answer of the browser and the driver.
GLEnvs ==
    [context : [ContextTypes -> BOOLEAN],
     shaderObject : [ShaderTypes -> BOOLEAN],
     compiles : [ShaderTypes -> BOOLEAN],
     programObject : BOOLEAN,
     links : BOOLEAN]

\* The messages of the errors thrown; the info log appended to a compile or
\* link message is left out.
NoWebGLMessage == "WebGL unavailable"

ShaderObjectMessage(type) ==
    IF type = "VERTEX_SHADER" THEN "shader object creation failed (type=VERTEX_SHADER)"
    ELSE "shader object creation failed (type=FRAGMENT_SHADER)"

CompileMessage(type) ==
    IF type = "VERTEX_SHADER" THEN "Vertex shader compile failed"
    ELSE "Fragment shader compile failed"

ProgramObjectMessage == "program object creation failed"

LinkMessage == "program link failed"

\* canvas.getContext(type): the request is recorded, the answer is env's.
GetContext(env, requested, type) ==
    [requested |-> Append(requested, type), granted |-> env.context[type]]

\* createGLCanvas(container): the context types requested in order, the
\* one returned, isWebGL2, and whether it threw.
createGLCanvas_WebGL1First(env) ==
    LET first == GetContext(env, << >>, "webgl")
        second == GetContext(env, first.requested, "webgl2")
        third == GetContext(env, second.requested, "experimental-webgl")
    IN IF first.granted
       THEN [threw |-> FALSE, message |-> "", context |-> "webgl",
             isWebGL2 |-> FALSE, requested |-> first.requested]
       ELSE IF second.granted
       THEN [threw |-> FALSE, message |-> "", context |-> "webgl2",
             isWebGL2 |-> TRUE, requested |-> second.requested]
       ELSE IF third.granted
       THEN [threw |-> FALSE, message |-> "",
             context |-> "experimental-webgl",
             isWebGL2 |-> FALSE, requested |-> third.requested]
       ELSE [threw |-> TRUE, message |-> NoWebGLMessage, context |-> "null",
             isWebGL2 |-> FALSE, requested |-> third.requested]

createGLCanvas(env) ==
    LET first == GetContext(env, << >>, "webgl2")
        second == GetContext(env, first.requested, "webgl")
        third == GetContext(env, second.requested, "experimental-webgl")
    IN IF first.granted
       THEN [threw |-> FALSE, message |-> "", context |-> "webgl2",
             isWebGL2 |-> TRUE, requested |-> first.requested]
       ELSE IF second.granted
       THEN [threw |-> FALSE, message |-> "", context |-> "webgl",
             isWebGL2 |-> FALSE, requested |-> second.requested]
       ELSE IF third.granted
       THEN [threw |-> FALSE, message |-> "",
             context |-> "experimental-webgl",
             isWebGL2 |-> FALSE, requested |-> third.requested]
       ELSE [threw |-> TRUE, message |-> NoWebGLMessage, context |-> "null",
             isWebGL2 |-> FALSE, requested |-> third.requested]

\* The objects of a context: those created and those deleted since.
NoObjects == [created |-> {}, deleted |-> {}]

CreateObject(objects, name) ==
    [objects EXCEPT !.created = objects.created \cup { name }]

DeleteObject(objects, name) ==
    [objects EXCEPT !.deleted = objects.deleted \cup { name }]

\* compileShader(gl, type, source): the shader object is named by its type.
compileShader(env, objects, type) ==
    IF ~env.shaderObject[type]
    THEN [threw |-> TRUE, message |-> ShaderObjectMessage(type),
          objects |-> objects]
    ELSE LET made == CreateObject(objects, type)
         IN IF ~env.compiles[type]
            THEN [threw |-> TRUE, message |-> CompileMessage(type),
                  objects |-> DeleteObject(made, type)]
            ELSE [threw |-> FALSE, message |-> "", objects |-> made]

\* createProgram(gl, vsSource, fsSource)
createProgram(env, objects) ==
    LET vs == compileShader(env, objects, "VERTEX_SHADER")
    IN IF vs.threw THEN vs
       ELSE LET fs == compileShader(env, vs.objects, "FRAGMENT_SHADER")
            IN IF fs.threw THEN fs
               ELSE IF ~env.programObject
               THEN [threw |-> TRUE, message |-> ProgramObjectMessage,
                     objects |-> fs.objects]
               ELSE LET made == CreateObject(fs.objects, "program")
                    IN IF ~env.links
                       THEN [threw |-> TRUE, message |-> LinkMessage,
                             objects |-> DeleteObject(made, "program")]
                       ELSE [threw |-> FALSE, message |-> "",
                             objects |->
                                 DeleteObject(
                                     DeleteObject(made, "VERTEX_SHADER"),
                                     "FRAGMENT_SHADER")]

\* The helpers run against one environment: createGLCanvas, and then
\* createProgram on the context it returned.
GLInit ==
    /\ CoreIdle
    /\ AppIdle
    /\ \E env \in GLEnvs :
           gl = [pc |-> "start", env |-> env, requested |-> << >>,
                 context |-> "null", isWebGL2 |-> FALSE,
                 threw |-> FALSE, message |-> "", objects |-> NoObjects]

GLCreateCanvas ==
    /\ gl.pc = "start"
    /\ LET ctx == createGLCanvas(gl.env)
       IN gl' = [gl EXCEPT !.pc = IF ctx.threw THEN "unavailable"
                                  ELSE "context",
                           !.requested = ctx.requested,
                           !.context = ctx.context,
                           !.isWebGL2 = ctx.isWebGL2,
                           !.threw = ctx.threw,
                           !.message = ctx.message]
    /\ UNCHANGED <<coreVars, appVars>>

GLCreateProgram ==
    /\ gl.pc = "context"
    /\ LET made == createProgram(gl.env, gl.objects)
       IN gl' = [gl EXCEPT !.pc = IF made.threw THEN "failed" ELSE "program",
                           !.threw = made.threw,
                           !.message = made.message,
                           !.objects = made.objects]
    /\ UNCHANGED <<coreVars, appVars>>

GLNext ==
    \/ GLCreateCanvas
    \/ GLCreateProgram

SpecGL == GLInit /\ [][GLNext]_vars

----------------------------------------------------------------------------
(* The pages.  One page is rendered into the outlet, used, and torn down    *)
(* when the router empties the outlet.                                      *)
(*                                                                          *)
(* Numbers of the page state and of the controls are counted in hundredths: *)
(* 50 is 0.5 and 9000 is 90.  The text of a number is the record of its     *)
(* sign, its integer part and the digits of its fraction.                   *)
(*                                                                          *)
(* The event loop: a MutationObserver callback is a microtask, which runs   *)
(* before the next task and before the next animation frame; promise        *)
(* reactions and animation frame callbacks run one at a time.               *)

\* Most animation frames requested by a page.
MaxFrames == 3

Abs(n) == IF n < 0 THEN -n ELSE n

\* v.toFixed(2)
ToFixed2(v) ==
    [neg |-> v < 0, int |-> Abs(v) \div 100,
     frac |-> << (Abs(v) % 100) \div 10, Abs(v) % 10 >>]

\* String(v): the shortest decimal text of v.
String(v) ==
    [neg |-> v < 0, int |-> Abs(v) \div 100,
     frac |-> IF Abs(v) % 100 = 0 THEN << >>
              ELSE IF Abs(v) % 10 = 0 THEN << (Abs(v) % 100) \div 10 >>
              ELSE << (Abs(v) % 100) \div 10, Abs(v) % 10 >>]

\* parseFloat(t) of a decimal text of at most two fraction digits.
parseFloat(t) ==
    LET tenths == IF Len(t.frac) >= 1 THEN t.frac[1] ELSE 0
        hundredths == IF Len(t.frac) >= 2 THEN t.frac[2] ELSE 0
        magnitude == t.int * 100 + tenths * 10 + hundredths
    IN IF t.neg THEN -magnitude ELSE magnitude

\* A slider as createSlider builds it for the value v: input.value and
\* valueSpan.textContent.
createSlider(v) == [value |-> String(v), label |-> ToFixed2(v)]

\* The "input" listener of a slider whose input.value is the text t.
SliderListener(t) == [value |-> t, label |-> ToFixed2(parseFloat(t))]

\* The page is rendered and its canvas is inside the container.
Live(p) == p.phase = "live"

\* requestAnimationFrame(frame): the handle returned is the number of
\* requests made so far.
RequestFrame(p) ==
    [p EXCEPT !.handles = p.handles + 1,
              !.pending = p.pending \cup { p.handles + 1 },
              !.rafId = p.handles + 1]

\* outlet.innerHTML = "": the content of the container is removed, and an
\* observer that is connected is notified.
Detach(p) ==
    [p EXCEPT !.attached = FALSE, !.records = p.records \/ p.observing]

\* A mutation inside the container, such as a new value label.
Mutated(p) == [p EXCEPT !.records = p.records \/ p.observing]

\* The callback of the MutationObserver.
ObserverCallback_KeepsFrame(p) ==
    IF ~p.attached
    THEN [p EXCEPT !.records = FALSE, !.observing = FALSE]
    ELSE [p EXCEPT !.records = FALSE]

ObserverCallback(p) ==
    IF ~p.attached
    THEN [p EXCEPT !.records = FALSE,
                   !.pending = p.pending \ { p.rafId },
                   !.observing = FALSE]
    ELSE [p EXCEPT !.records = FALSE]

\* The animation frame callback of handle id can run.
FrameDue(p, id) ==
    /\ Live(p)
    /\ ~p.records
    /\ id \in p.pending
    /\ p.handles < MaxFrames

\* The head of a page: createGLCanvas in the first try block and, on the
\* context it returned, createProgram in the second.  The outcome is what
\* the page goes on with: the error caught, or isWebGL2.
AcquireGL(env) ==
    LET ctx == createGLCanvas(env)
    IN IF ctx.threw
       THEN [threw |-> TRUE, message |-> ctx.message, isWebGL2 |-> FALSE]
       ELSE LET made == createProgram(env, NoObjects)
            IN [threw |-> made.threw, message |-> made.message,
                isWebGL2 |-> ctx.isWebGL2]

\* The outcomes over every environment.
GLOutcomes == { AcquireGL(env) : env \in GLEnvs }

\* showError(container, message): one div.gl-error is appended.
showError(errors, message) == Append(errors, message)

\* A catch block of Transform01 and of Triangle01: the error is shown and
\* the function returns; no frame has been requested (handles) and no draw
\* call made (draws), and nothing is thrown to the caller (escaped).
Caught_Rethrows(msg) ==
    [phase |-> "error", errors |-> << >>, escaped |-> TRUE,
     handles |-> 0, draws |-> 0]

Caught(msg) ==
    [phase |-> "error", errors |-> showError(<< >>, msg), escaped |-> FALSE,
     handles |-> 0, draws |-> 0]

\* A catch block of Sphere01 and of Texture01, which also clears the
\* loading text.
CaughtLoading(msg) ==
    [phase |-> "error", errors |-> showError(<< >>, msg), escaped |-> FALSE,
     handles |-> 0, draws |-> 0, statusText |-> ""]

----------------------------------------------------------------------------
(* Transform01 *)

TransformDefaults == [tx |-> 0, ty |-> 0, rotDeg |-> 0, scale |-> 50]

\* Positions of the sliders: Translate X and Y in -1..1 by 0.01, Rotation Z
\* in -180..180 by 1, Scale in 0.1..2 by 0.01.
TransformInputs ==
    [tx |-> { -100, 7 }, ty |-> { 50 }, rotDeg |-> { 9000 },
     scale |-> { 200 }]

\* (Math.cos, Math.sin) of degToRad(deg) at the quarter turns, taken as
\* exact.
CosSin(deg) ==
    CASE deg = 0 -> <<1, 0>>
      [] deg = 9000 -> <<0, 1>>
      [] deg \in { 18000, -18000 } -> <<-1, 0>>
      [] deg = -9000 -> <<0, -1>>

\* The matrix frame() uploads for the state st: multiply(T, multiply(R, S)).
TransformMvp_ScaleLast(st) ==
    LET S == scaling(<< >>, <<st.scale, st.scale>>)
        R == rotationZ(S.heap, CosSin(st.rotDeg))
        T == translation(R.heap, <<st.tx, st.ty>>)
        TR == multiply(T.heap, T.ret, R.ret)
        mvp == multiply(TR.heap, S.ret, TR.ret)
    IN mvp.heap[mvp.ret]

TransformMvp(st) ==
    LET S == scaling(<< >>, <<st.scale, st.scale>>)
        R == rotationZ(S.heap, CosSin(st.rotDeg))
        T == translation(R.heap, <<st.tx, st.ty>>)
        RS == multiply(T.heap, R.ret, S.ret)
        mvp == multiply(RS.heap, T.ret, RS.ret)
    IN mvp.heap[mvp.ret]

\* The value of a uniform that was never set.
NoMatrix == [i \in 0..15 |-> 0]

\* No page is rendered.
NoPages == tf = NoPage /\ sp = NoPage /\ tex = NoPage /\ tri = NoPage

\* renderTransform01(container): a helper throws and the page shows the
\* error, or the page is built and the render loop started.
TransformRender ==
    /\ NoPages
    /\ \E o \in GLOutcomes :
       IF o.threw
       THEN tf' = Caught(o.message)
       ELSE tf' = RequestFrame(
                    [phase |-> "live",
                     defaults |-> TransformDefaults,
                     state |-> TransformDefaults,
                     sliders |->
                         [f \in DOMAIN TransformDefaults |->
                              createSlider(TransformDefaults[f])],
                     mvp |-> NoMatrix,
                     rafId |-> 0, handles |-> 0, pending |-> {},
                     attached |-> TRUE, observing |-> TRUE,
                     records |-> FALSE])
    /\ UNCHANGED <<sp, tex, tri, coreVars, gl, routerVars>>

\* The user moves a slider: the "input" listener of createSlider and the
\* onChange of the field.
TransformInput ==
    /\ Live(tf) /\ tf.attached
    /\ \E f \in DOMAIN TransformInputs :
           \E v \in TransformInputs[f] \cup { TransformDefaults[f] } :
               LET sl == SliderListener(String(v))
               IN tf' = Mutated([tf EXCEPT !.sliders[f] = sl,
                                           !.state[f] = parseFloat(sl.value)])
    /\ UNCHANGED <<sp, tex, tri, coreVars, gl, routerVars>>

\* The user clicks Reset.
TransformReset_KeepsScale ==
    /\ Live(tf) /\ tf.attached
    /\ LET st == [tf.defaults EXCEPT !.scale = tf.state.scale]
       IN tf' = Mutated([tf EXCEPT !.state = st,
                                   !.sliders =
                                       [f \in DOMAIN st |->
                                            [value |-> String(st[f]),
                                             label |-> ToFixed2(st[f])]]])
    /\ UNCHANGED <<sp, tex, tri, coreVars, gl, routerVars>>

TransformReset ==
    /\ Live(tf) /\ tf.attached
    /\ LET st == tf.defaults
       IN tf' = Mutated([tf EXCEPT !.state = st,
                                   !.sliders =
                                       [f \in DOMAIN st |->
                                            [value |-> String(st[f]),
                                             label |-> ToFixed2(st[f])]]])
    /\ UNCHANGED <<sp, tex, tri, coreVars, gl, routerVars>>

\* An animation frame: frame() uploads the matrix, draws, and requests the
\* next frame.
TransformFrame ==
    /\ Live(tf)
    /\ \E id \in tf.pending :
           /\ FrameDue(tf, id)
           /\ tf' = RequestFrame(
                        [tf EXCEPT !.pending = tf.pending \ { id },
                                   !.mvp = TransformMvp(tf.state)])
    /\ UNCHANGED <<sp, tex, tri, coreVars, gl, routerVars>>

----------------------------------------------------------------------------
(* Sphere01.  The uniform matrix of its frame is left out: perspective and  *)
(* rotationY are not among the matrix operations above.                     *)

\* min and max of the Stacks and of the Slices slider, both of step 1: the
\* range input holds its value inside them.
StacksMin == 4

StacksMax == 64

SlicesMin == 4

SlicesMax_Wide == 8 * 128

SlicesMax == 128

\* Positions of the Stacks (4..64) and Slices (4..128) sliders.
StacksInputs == { 4 }

SlicesInputs == { 6 }

\* The count n as a number of the page.
Hundredths(n) == 100 * n

\* The slider of Sphere01 for the value v: the label is String(value).
createCountSlider(v) == [value |-> String(v), label |-> String(v)]

\* The contents of the buffers bound for drawing after uploadMesh(): both
\* the WebGL2 and the WebGL1 branch fill a position, a uv and an index
\* buffer with the arrays of the mesh m.
uploadMesh_IndicesOnly(m, gpu) ==
    [gpu EXCEPT !.indices = m.indices]

uploadMesh(m, gpu) ==
    [positions |-> m.positions, uvs |-> m.uvs, indices |-> m.indices]

\* Most Rebuild clicks on one Sphere01 page.
MaxRebuilds == 2

\* The buffers and vertex arrays of the context that have been created and
\* not deleted, after posBuffer, uvBuffer and idxBuffer are created and vao
\* is null.
CreatedBuffers == [buffers |-> 3, vertexArrays |-> 0]

\* The same count after uploadMesh(): the WebGL2 branch deletes the vertex
\* array it holds, if any, creates one, and creates three buffers that
\* replace posBuffer, uvBuffer and idxBuffer; the WebGL1 branch fills the
\* buffers it has.
uploadMeshObjects(isWebGL2, objects) ==
    IF isWebGL2
    THEN [buffers |-> objects.buffers + 3,
          vertexArrays |->
              (IF objects.vertexArrays > 0
               THEN objects.vertexArrays - 1
               ELSE objects.vertexArrays) + 1]
    ELSE objects

\* Buffers created by gl.createBuffer(), holding no data.
NoBuffers == [positions |-> NoArray, uvs |-> NoArray, indices |-> NoArray]

\* No drawElements call has been made.
NoDraw == [count |-> -1, texture |-> FALSE, indexed |-> 0]

LoadFailed_KeepsText(p, msg) ==
    Mutated([p EXCEPT !.load = "failed", !.errorShown = TRUE,
                      !.errorText = msg])

\* The page after the image load has failed with the message msg: the
\* loading text is cleared and the error is shown.
LoadFailed(p, msg) ==
    Mutated([p EXCEPT !.load = "failed", !.statusText = "",
                      !.errorShown = TRUE, !.errorText = msg])

\* renderSphere01(container)
SphereRender ==
    /\ NoPages
    /\ \E o \in GLOutcomes :
       IF o.threw
       THEN sp' = CaughtLoading(o.message)
       ELSE   LET m == createSphereMesh(1, 32, 64)
              IN sp' = [phase |-> "live",
                        isWebGL2 |-> o.isWebGL2,
                        currentStacks |-> 32,
                        currentSlices |-> 64,
                        sliders |->
                            [stacks |-> createCountSlider(Hundredths(32)),
                             slices |-> createCountSlider(Hundredths(64))],
                        mesh |-> m,
                        gpu |-> uploadMesh(m, NoBuffers),
                        objects |->
                            uploadMeshObjects(o.isWebGL2, CreatedBuffers),
                        rebuilds |-> 0,
                        texture |-> FALSE,
                        lastDraw |-> NoDraw,
                        load |-> "pending", loads |-> 1,
                        statusText |-> "Loading texture...",
                        errorShown |-> FALSE, errorText |-> "",
                        uiShown |-> FALSE,
                        rafId |-> 0, handles |-> 0, pending |-> {},
                        attached |-> TRUE, observing |-> TRUE,
                        records |-> TRUE]
    /\ UNCHANGED <<tf, tex, tri, coreVars, gl, routerVars>>

\* loadImage resolves: createTexture returns the texture and the render
\* loop starts, or createTexture throws.
SphereLoaded ==
    /\ Live(sp) /\ sp.load = "pending" /\ ~sp.records
    /\ \/ sp' = RequestFrame([sp EXCEPT !.load = "loaded",
                                        !.texture = TRUE,
                                        !.uiShown = TRUE])
       \/ sp' = LoadFailed(sp, "createTexture")
    /\ UNCHANGED <<tf, tex, tri, coreVars, gl, routerVars>>

\* loadImage rejects.
SphereLoadRejected ==
    /\ Live(sp) /\ sp.load = "pending" /\ ~sp.records
    /\ sp' = LoadFailed(sp, "loadImage")
    /\ UNCHANGED <<tf, tex, tri, coreVars, gl, routerVars>>

\* The user moves the Stacks or the Slices slider.
SphereInputOf(stacksAt, slicesAt) ==
    /\ Live(sp) /\ sp.attached /\ sp.uiShown
    /\ \/ \E n \in stacksAt :
              LET t == String(Hundredths(n))
              IN sp' = Mutated(
                     [sp EXCEPT !.sliders.stacks =
                                    [value |-> t,
                                     label |-> String(parseFloat(t))],
                                !.currentStacks = parseFloat(t) \div 100])
       \/ \E n \in slicesAt :
              LET t == String(Hundredths(n))
              IN sp' = Mutated(
                     [sp EXCEPT !.sliders.slices =
                                    [value |-> t,
                                     label |-> String(parseFloat(t))],
                                !.currentSlices = parseFloat(t) \div 100])
    /\ UNCHANGED <<tf, tex, tri, coreVars, gl, routerVars>>

SphereInput == SphereInputOf(StacksInputs, SlicesInputs)

\* The user drags a slider to one of its ends.
SphereInputAtLimits ==
    SphereInputOf({ StacksMin, StacksMax }, { SlicesMin, SlicesMax })

\* The user clicks Rebuild.
SphereRebuild ==
    /\ Live(sp) /\ sp.attached /\ sp.uiShown
    /\ sp.rebuilds < MaxRebuilds
    /\ LET m == createSphereMesh(1, sp.currentStacks, sp.currentSlices)
       IN sp' = [sp EXCEPT !.mesh = m, !.gpu = uploadMesh(m, sp.gpu),
                           !.objects =
                               uploadMeshObjects(sp.isWebGL2, sp.objects),
                           !.rebuilds = sp.rebuilds + 1]
    /\ UNCHANGED <<tf, tex, tri, coreVars, gl, routerVars>>

\* An animation frame: frame(now) draws the mesh if the texture exists and
\* requests the next frame.
SphereFrame ==
    /\ Live(sp)
    /\ \E id \in sp.pending :
           /\ FrameDue(sp, id)
           /\ LET q == [sp EXCEPT !.pending = sp.pending \ { id }]
              IN sp' = RequestFrame(
                     IF ~sp.texture THEN q
                     ELSE [q EXCEPT !.lastDraw =
                                        [count |-> sp.mesh.indexCount,
                                         texture |-> sp.texture,
                                         indexed |-> sp.gpu.indices.length]])
    /\ UNCHANGED <<tf, tex, tri, coreVars, gl, routerVars>>

----------------------------------------------------------------------------
(* Texture01 *)

TextureDefaults ==
    [filter |-> "LINEAR", wrap |-> "CLAMP_TO_EDGE", flipY |-> TRUE,
     uvScale |-> 100]

\* Positions of the UV Scale slider (1..8 by 0.1).
UvScaleInputs == { 250, 800 }

\* The controls as they are built for the state st.
TextureControls(st) ==
    [filter |-> st.filter, wrap |-> st.wrap, flipY |-> st.flipY,
     uvScale |-> createSlider(st.uvScale)]

\* renderTexture01(container)
TextureRender ==
    /\ NoPages
    /\ \E o \in GLOutcomes :
       IF o.threw
       THEN tex' = CaughtLoading(o.message)
       ELSE tex' = [phase |-> "live",
                  defaults |-> TextureDefaults,
                  state |-> TextureDefaults,
                  controls |-> TextureControls(TextureDefaults),
                  texture |-> FALSE, loadedImage |-> FALSE,
                  needsReupload |-> FALSE,
                  uploadedFlip |-> FALSE,
                  frameUploads |-> 0,
                  since |-> {},
                  lastDraw |-> NoDraw,
                  load |-> "pending", loads |-> 1,
                  statusText |-> "Loading texture...",
                  errorShown |-> FALSE, errorText |-> "",
                        uiShown |-> FALSE,
                  rafId |-> 0, handles |-> 0, pending |-> {},
                  attached |-> TRUE, observing |-> TRUE,
                  records |-> TRUE]
    /\ UNCHANGED <<tf, sp, tri, coreVars, gl, routerVars>>

\* loadImage resolves: loadedImage is set; createTexture uploads the image
\* with the flip of the state and the render loop starts, or createTexture
\* throws.
TextureLoaded ==
    /\ Live(tex) /\ tex.load = "pending" /\ ~tex.records
    /\ \/ tex' = RequestFrame([tex EXCEPT !.load = "loaded",
                                          !.loadedImage = TRUE,
                                          !.texture = TRUE,
                                          !.uploadedFlip = tex.state.flipY,
                                          !.uiShown = TRUE])
       \/ tex' = LoadFailed([tex EXCEPT !.loadedImage = TRUE], "createTexture")
    /\ UNCHANGED <<tf, sp, tri, coreVars, gl, routerVars>>

\* loadImage rejects.
TextureLoadRejected ==
    /\ Live(tex) /\ tex.load = "pending" /\ ~tex.records
    /\ tex' = LoadFailed(tex, "loadImage")
    /\ UNCHANGED <<tf, sp, tri, coreVars, gl, routerVars>>

\* The user picks a filter or a wrap mode, or moves the UV Scale slider.
TextureInput ==
    /\ Live(tex) /\ tex.attached /\ tex.uiShown
    /\ \/ \E v \in { "NEAREST", "LINEAR" } :
              tex' = [tex EXCEPT !.controls.filter = v, !.state.filter = v]
       \/ \E v \in { "CLAMP_TO_EDGE", "REPEAT" } :
              tex' = [tex EXCEPT !.controls.wrap = v, !.state.wrap = v]
       \/ \E v \in UvScaleInputs \cup { TextureDefaults.uvScale } :
              LET sl == SliderListener(String(v))
              IN tex' = Mutated([tex EXCEPT !.controls.uvScale = sl,
                                            !.state.uvScale =
                                                parseFloat(sl.value)])
    /\ UNCHANGED <<tf, sp, tri, coreVars, gl, routerVars>>

\* The user toggles Flip Y.
TextureFlip_NoReupload ==
    /\ Live(tex) /\ tex.attached /\ tex.uiShown
    /\ LET v == ~tex.controls.flipY
       IN tex' = [tex EXCEPT !.controls.flipY = v,
                             !.state.flipY = v,
                             !.since = tex.since \cup { "flip" }]
    /\ UNCHANGED <<tf, sp, tri, coreVars, gl, routerVars>>

TextureFlip ==
    /\ Live(tex) /\ tex.attached /\ tex.uiShown
    /\ LET v == ~tex.controls.flipY
       IN tex' = [tex EXCEPT !.controls.flipY = v,
                             !.state.flipY = v,
                             !.needsReupload = TRUE,
                             !.since = tex.since \cup { "flip" }]
    /\ UNCHANGED <<tf, sp, tri, coreVars, gl, routerVars>>

\* The user clicks Reset.
TextureReset ==
    /\ Live(tex) /\ tex.attached /\ tex.uiShown
    /\ LET st == tex.defaults
       IN tex' = Mutated(
              [tex EXCEPT !.state = st,
                          !.controls =
                              [filter |-> st.filter, wrap |-> st.wrap,
                               flipY |-> st.flipY,
                               uvScale |-> [value |-> String(st.uvScale),
                                            label |-> ToFixed2(st.uvScale)]],
                          !.needsReupload = TRUE,
                          !.since = tex.since \cup { "reset" }])
    /\ UNCHANGED <<tf, sp, tri, coreVars, gl, routerVars>>

\* An animation frame: frame() re-uploads the image if needed, draws, and
\* requests the next frame.
TextureFrame ==
    /\ Live(tex)
    /\ \E id \in tex.pending :
           /\ FrameDue(tex, id)
           /\ LET q == [tex EXCEPT !.pending = tex.pending \ { id },
                                   !.since = {},
                                   !.frameUploads = 0]
                  r == IF q.needsReupload
                       THEN [q EXCEPT !.uploadedFlip = q.state.flipY,
                                      !.frameUploads = 1,
                                      !.needsReupload = FALSE]
                       ELSE q
              IN tex' = RequestFrame(
                     IF tex.texture /\ tex.loadedImage
                     THEN [r EXCEPT !.lastDraw =
                                        [count |-> 6, texture |-> tex.texture,
                                         indexed |-> 0]]
                     ELSE q)
    /\ UNCHANGED <<tf, sp, tri, coreVars, gl, routerVars>>

----------------------------------------------------------------------------
(* Triangle01.  The page draws once; its Reset button empties the canvas    *)
(* container and draws again, on a new canvas and a new context.            *)

\* Most draw(container) calls of one Triangle01 page.
MaxDraws == 3

\* draw(container), the attempts-th call on the page: the container holds
\* the error of a helper that threw, or gl.drawArrays has been called.
draw(o, attempts) ==
    IF o.threw
    THEN [phase |-> "error", attempts |-> attempts,
          errors |-> Caught(o.message).errors,
          escaped |-> Caught(o.message).escaped,
          handles |-> 0, draws |-> 0]
    ELSE [phase |-> "drawn", attempts |-> attempts,
          errors |-> << >>, escaped |-> FALSE,
          handles |-> 0, draws |-> 1]

\* renderTriangle01(container)
TriangleRender ==
    /\ NoPages
    /\ \E o \in GLOutcomes : tri' = draw(o, 1)
    /\ UNCHANGED <<tf, sp, tex, coreVars, gl, routerVars>>

\* The user clicks Reset: canvasWrap.innerHTML = ""; draw(canvasWrap).
TriangleReset ==
    /\ tri.phase \in { "error", "drawn" }
    /\ tri.attempts < MaxDraws
    /\ \E o \in GLOutcomes : tri' = draw(o, tri.attempts + 1)
    /\ UNCHANGED <<tf, sp, tex, coreVars, gl, routerVars>>

----------------------------------------------------------------------------
(* The outlet and the event loop. *)

\* navigate() empties the outlet that holds the page.
HostClear ==
    /\ \/ /\ tf.phase # "absent"
          /\ tf' = IF Live(tf) THEN Detach(tf) ELSE [phase |-> "gone"]
          /\ Live(tf) => tf.attached
          /\ UNCHANGED <<sp, tex, tri>>
       \/ /\ sp.phase # "absent"
          /\ sp' = IF Live(sp) THEN Detach(sp) ELSE [phase |-> "gone"]
          /\ Live(sp) => sp.attached
          /\ UNCHANGED <<tf, tex, tri>>
       \/ /\ tex.phase # "absent"
          /\ tex' = IF Live(tex) THEN Detach(tex) ELSE [phase |-> "gone"]
          /\ Live(tex) => tex.attached
          /\ UNCHANGED <<tf, sp, tri>>
       \/ /\ tri.phase # "absent"
          /\ tri' = [phase |-> "gone"]
          /\ UNCHANGED <<tf, sp, tex>>
    /\ UNCHANGED <<coreVars, gl, routerVars>>

\* The microtask of the MutationObserver of the page.
ObserverRun ==
    /\ \/ /\ Live(tf) /\ tf.records
          /\ tf' = ObserverCallback(tf)
          /\ UNCHANGED <<sp, tex, tri>>
       \/ /\ Live(sp) /\ sp.records
          /\ sp' = ObserverCallback(sp)
          /\ UNCHANGED <<tf, tex, tri>>
       \/ /\ Live(tex) /\ tex.records
          /\ tex' = ObserverCallback(tex)
          /\ UNCHANGED <<tf, sp, tri>>
    /\ UNCHANGED <<coreVars, gl, routerVars>>

PagesInit ==
    /\ CoreIdle
    /\ AppIdle
    /\ gl = NoGL

PagesNext ==
    \/ TransformRender
    \/ TransformInput
    \/ TransformReset
    \/ TransformFrame
    \/ SphereRender
    \/ SphereLoaded
    \/ SphereLoadRejected
    \/ SphereInput
    \/ SphereRebuild
    \/ SphereFrame
    \/ TextureRender
    \/ TextureLoaded
    \/ TextureLoadRejected
    \/ TextureInput
    \/ TextureFlip
    \/ TextureReset
    \/ TextureFrame
    \/ TriangleRender
    \/ TriangleReset
    \/ HostClear
    \/ ObserverRun

SpecPages == PagesInit /\ [][PagesNext]_vars

\* Sphere01 with its sliders dragged to their ends: the meshes Rebuild
\* builds at the limits of the controls.
SphereMeshesNext ==
    \/ SphereRender
    \/ SphereLoaded
    \/ SphereInputAtLimits
    \/ SphereRebuild
    \/ ObserverRun

SpecSphereMeshes == PagesInit /\ [][SphereMeshesNext]_vars

----------------------------------------------------------------------------
(* Properties of the pages, checked under SpecPages. *)

\* In the step, no animation frame callback of the page runs and none is
\* requested: p is the page before the step and q the page after it.
NoFrameActivity(p, q) ==
    /\ q.handles = p.handles
    /\ q.pending \subseteq p.pending

\* The page has been torn down: it was built, and its canvas is no longer
\* inside the container.
TornDown(p) == Live(p) /\ ~p.attached

\* C12: in Transform01, once the canvas is removed from the container the
\* pending frame is cancelled and the observer disconnected, so that no
\* frame callback runs and no frame is requested at any later time; while
\* the canvas stays attached, exactly one frame is pending after every
\* frame.
C12_TransformTeardown ==
    [][/\ TornDown(tf) => NoFrameActivity(tf, tf')
       /\ (TornDown(tf') /\ ~tf'.records) =>
              (tf'.pending = {} /\ ~tf'.observing)
       /\ (Live(tf') /\ tf'.attached) =>
              (Cardinality(tf'.pending) = 1 /\ tf'.rafId \in tf'.pending)
    ]_vars

\* Transform01 was torn down after two frames had run.
C12_Witness ==
    /\ TornDown(tf)
    /\ ~tf.records
    /\ tf.handles = 3
    /\ tf.pending = {}
    /\ ~tf.observing

\* C13: in Sphere01 and Texture01, for every interleaving of the end of the
\* image load and the teardown of the view, no frame callback is requested
\* or run once the view has been torn down; a teardown before the image
\* has loaded keeps the render loop from starting.
C13_LoadedPagesTeardown ==
    [][/\ TornDown(sp) => NoFrameActivity(sp, sp')
       /\ TornDown(tex) => NoFrameActivity(tex, tex')
    ]_vars

\* The frames and the failure of a page that awaits its texture.
AwaitsTexture(p) ==
    Live(p) =>
        /\ p.loads = 1
        /\ p.pending # {} => (p.load = "loaded" /\ p.texture)
        /\ p.lastDraw # NoDraw => (p.lastDraw.texture /\ p.texture)
        /\ p.texture => p.load = "loaded"
        /\ p.load = "pending" =>
               (p.handles = 0 /\ p.statusText = "Loading texture...")
        /\ p.load = "failed" =>
               /\ p.handles = 0
               /\ p.pending = {}
               /\ p.statusText = ""
               /\ p.errorShown
               /\ ~p.texture

\* C14: in Sphere01 and Texture01 the texture is awaited once before the
\* render loop starts: whenever a frame is pending the image has loaded and
\* texture is non-null, and no draw call is made without a texture; if the
\* load rejects or createTexture throws, no frame is ever requested, the
\* loading text is cleared and an error element is shown, with no retry.
C14_TextureAwaited == AwaitsTexture(sp) /\ AwaitsTexture(tex)

\* Sphere01 has drawn with its texture and the next frame is pending.
C14_Witness ==
    /\ Live(sp)
    /\ sp.lastDraw.texture
    /\ sp.lastDraw.count > 0
    /\ sp.pending # {}
    /\ sp.load = "loaded"

\* C15: in Sphere01 the index count passed to drawElements is the number of
\* indices most recently uploaded to the element buffer, and the uploaded
\* positions, uvs and indices are those of one mesh: the mesh built from
\* the stacks and slices current at the most recent Rebuild, at first 32
\* and 64.  Moving a slider changes neither the mesh nor a buffer.
C15_DrawsUploadedMesh ==
    [][Live(sp') =>
          /\ sp'.gpu = [positions |-> sp'.mesh.positions,
                        uvs |-> sp'.mesh.uvs,
                        indices |-> sp'.mesh.indices]
          /\ ~Live(sp) => sp'.mesh.indexCount = 32 * 64 * 6
          /\ (Live(sp) /\ sp'.mesh # sp.mesh) =>
                 /\ sp'.mesh.vertexCount =
                        (sp.currentStacks + 1) * (sp.currentSlices + 1)
                 /\ sp'.mesh.indexCount =
                        sp.currentStacks * sp.currentSlices * 6
                 /\ sp'.mesh.indices.length = sp'.mesh.indexCount
                 /\ sp'.currentStacks = sp.currentStacks
                 /\ sp'.currentSlices = sp.currentSlices
          /\ (Live(sp) /\ << sp'.currentStacks, sp'.currentSlices >>
                             # << sp.currentStacks, sp.currentSlices >>) =>
                 (sp'.mesh = sp.mesh /\ sp'.gpu = sp.gpu)
          /\ (Live(sp) /\ sp'.lastDraw # sp.lastDraw) =>
                 /\ sp'.lastDraw.count = sp.gpu.indices.length
                 /\ sp'.lastDraw.indexed = sp.gpu.indices.length
                 /\ sp'.gpu = sp.gpu
    ]_vars

\* A frame has drawn the 1536 indices of the rebuilt 4 x 64 mesh while the
\* Slices slider is at 6.
C15_Witness ==
    /\ Live(sp)
    /\ sp.currentStacks = 4
    /\ sp.currentSlices = 6
    /\ sp.mesh.vertexCount = 325
    /\ sp.gpu.indices.length = 1536
    /\ sp.lastDraw.count = 1536

\* The vector v scaled by the scale of st, then rotated about Z by its
\* rotDeg, then moved by its (tx, ty).
Transformed(st, v) ==
    LET c == CosSin(st.rotDeg)[1]
        s == CosSin(st.rotDeg)[2]
        scaled == << st.scale * v[1], st.scale * v[2], v[3], v[4] >>
        rotated == << c * scaled[1] - s * scaled[2],
                      s * scaled[1] + c * scaled[2], scaled[3], scaled[4] >>
    IN << rotated[1] + st.tx * rotated[4], rotated[2] + st.ty * rotated[4],
          rotated[3], rotated[4] >>

\* C18: every Transform01 frame uploads M = multiply(T, multiply(Rz, S))
\* built from the state values written by the most recent slider input or
\* Reset before the frame: the quad is scaled, then rotated about Z, then
\* translated, so that M takes the origin (0,0,0,1) to (tx, ty, 0, 1) for
\* every rotation and scale.
C18_FrameComposesTRS ==
    [][(Live(tf) /\ tf'.handles # tf.handles) =>
          LET M == tf'.mvp
              st == tf.state
          IN /\ tf'.state = st
             /\ \A f \in DOMAIN st : parseFloat(tf.sliders[f].value) = st[f]
             /\ Apply(M, Origin) = << st.tx, st.ty, 0, 1 >>
             /\ \A v \in Vectors : Apply(M, v) = Transformed(st, v)
    ]_vars

\* A frame has uploaded the matrix of tx = 0.07, a quarter turn and scale 2.
C18_Witness ==
    /\ Live(tf)
    /\ tf.state = [tx |-> 7, ty |-> 50, rotDeg |-> 9000, scale |-> 200]
    /\ tf.mvp[12] = 7
    /\ tf.mvp[13] = 50
    /\ tf.mvp[1] = 200
    /\ tf.mvp[4] = -200

\* C19: in Texture01, at the end of every frame needsReupload is false and
\* the flip of the image last uploaded to the texture is state.flipY; a
\* frame uploads the image again only if Flip Y was toggled or Reset was
\* clicked since the previous frame, and at most once.
C19_FlipReupload ==
    [][(Live(tex) /\ tex.handles >= 1 /\ tex'.handles # tex.handles) =>
          /\ ~tex'.needsReupload
          /\ tex'.uploadedFlip = tex'.state.flipY
          /\ tex'.state = tex.state
          /\ tex'.frameUploads \in { 0, 1 }
          /\ tex'.frameUploads = 1 => tex.since # {}
          /\ tex'.lastDraw.texture
    ]_vars

\* The second frame has uploaded the image again, unflipped.
C19_Witness ==
    /\ Live(tex)
    /\ tex.handles = 3
    /\ tex.frameUploads = 1
    /\ ~tex.state.flipY
    /\ ~tex.uploadedFlip
    /\ ~tex.needsReupload

\* The slider shows the number v as its value and as its label.
SliderShows(sl, v) == parseFloat(sl.value) = v /\ parseFloat(sl.label) = v

\* C20: in Transform01 and Texture01 every control shows the value of the
\* page state (the value and the label of a slider are the state field; a
\* select and the checkbox are theirs); right after a Reset the state is
\* the defaults (tx = 0, ty = 0, rotDeg = 0, scale = 0.5; LINEAR,
\* CLAMP_TO_EDGE, flipY = true, uvScale = 1); DEFAULT_STATE is never
\* modified.
C20_ControlsShowState ==
    [][/\ Live(tf') =>
              /\ \A f \in DOMAIN tf'.state :
                     SliderShows(tf'.sliders[f], tf'.state[f])
              /\ tf'.defaults =
                     [tx |-> 0, ty |-> 0, rotDeg |-> 0, scale |-> 50]
       /\ Live(tex') =>
              /\ tex'.controls.filter = tex'.state.filter
              /\ tex'.controls.wrap = tex'.state.wrap
              /\ tex'.controls.flipY = tex'.state.flipY
              /\ SliderShows(tex'.controls.uvScale, tex'.state.uvScale)
              /\ tex'.defaults =
                     [filter |-> "LINEAR", wrap |-> "CLAMP_TO_EDGE",
                      flipY |-> TRUE, uvScale |-> 100]
       /\ TransformReset =>
              tf'.state = [tx |-> 0, ty |-> 0, rotDeg |-> 0, scale |-> 50]
       /\ TextureReset =>
              tex'.state = [filter |-> "LINEAR", wrap |-> "CLAMP_TO_EDGE",
                            flipY |-> TRUE, uvScale |-> 100]
    ]_vars

\* Transform01 is back at its defaults after a frame has uploaded the
\* matrix of other values.
C20_Witness ==
    /\ Live(tf)
    /\ tf.state = TransformDefaults
    /\ tf.sliders.scale = [value |-> String(50), label |-> ToFixed2(50)]
    /\ tf.mvp[12] = 7
    /\ tf.mvp[0] = 0

----------------------------------------------------------------------------
(* The error path of the pages, checked under SpecPages. *)

\* The messages of the errors createGLCanvas and createProgram throw.
CaughtMessages == { o.message : o \in { x \in GLOutcomes : x.threw } }

\* The page p has caught the error of a helper: its container holds one
\* error element with the message thrown, nothing was thrown further, no
\* frame has been requested and no draw call made.
ErrorShown(p) ==
    p.phase = "error" =>
        /\ Len(p.errors) = 1
        /\ p.errors[1] \in CaughtMessages
        /\ ~p.escaped
        /\ p.handles = 0
        /\ p.draws = 0

\* From the page p that caught an error, a step leads to the page q only
\* by leaving it as it is or by emptying the outlet.
StaysError(p, q) ==
    p.phase = "error" => (q = p \/ q.phase = "gone")

\* C21, as stated: in each of Triangle01, Transform01, Texture01 and
\* Sphere01, when createGLCanvas or createProgram throws, the page shows one
\* error element with the message and returns, the exception does not
\* reach the router, and for that page no frame is ever scheduled and no
\* draw call ever issued.
C21_NeverDrawsAfterError ==
    [][/\ ErrorShown(tf') /\ StaysError(tf, tf')
       /\ ErrorShown(sp') /\ StaysError(sp, sp')
       /\ ErrorShown(tex') /\ StaysError(tex, tex')
       /\ ErrorShown(tri')
       /\ tri.phase = "error" => tri'.phase \in { "error", "gone" }
    ]_vars

\* C21, amended: every page shows one error element with the message of
\* the helper that threw and returns without a frame, a draw call or an
\* exception to the router; Transform01, Texture01 and Sphere01 stay so
\* until the outlet is emptied, and Triangle01 stays so until the outlet is
\* emptied or its Reset button, which is still added, runs draw again.
C21_ErrorCaughtAndShown ==
    [][/\ ErrorShown(tf') /\ StaysError(tf, tf')
       /\ ErrorShown(sp') /\ StaysError(sp, sp')
       /\ ErrorShown(tex') /\ StaysError(tex, tex')
       /\ ErrorShown(tri')
       /\ tri.phase = "error" =>
              \/ tri' = tri
              \/ tri'.phase = "gone"
              \/ /\ TriangleReset
                 /\ tri'.attempts = tri.attempts + 1
    ]_vars

\* The second draw of a Triangle01 page failed to link its program.
C21_Witness ==
    /\ tri.phase = "error"
    /\ tri.attempts = 2
    /\ tri.errors = << LinkMessage >>
    /\ tri.draws = 0

----------------------------------------------------------------------------
(* Properties of the WebGL helpers, checked under SpecGL. *)

\* createProgram has returned ("program") or thrown ("failed").
ProgramFinished == gl.pc \in { "program", "failed" }

\* The objects created and not deleted.
LiveObjects(objects) == objects.created \ objects.deleted

\* C22: after createProgram finishes, by returning the program or by
\* throwing, every shader object it created has been deleted, and when it
\* threw no program object it created is left undeleted.
C22_ShadersReleased ==
    ProgramFinished =>
        /\ LiveObjects(gl.objects) \cap ShaderTypes = {}
        /\ gl.pc = "failed" => "program" \notin LiveObjects(gl.objects)

\* The order in which createGLCanvas names the context types.
ContextOrder == << "webgl2", "webgl", "experimental-webgl" >>

\* createGLCanvas has returned or thrown.
CanvasFinished == gl.pc # "start"

\* C23: createGLCanvas requests webgl2, webgl and experimental-webgl in
\* that order and returns the first context granted; no type is requested
\* after one was granted; isWebGL2 is true exactly when the webgl2 request
\* was granted; it throws exactly when all three requests return null.
C23_ContextFallback ==
    CanvasFinished =>
        /\ Len(gl.requested) \in 1..3
        /\ gl.requested = SubSeq(ContextOrder, 1, Len(gl.requested))
        /\ \A i \in 1..(Len(gl.requested) - 1) :
               ~gl.env.context[gl.requested[i]]
        /\ gl.pc # "unavailable" =>
               /\ gl.context = gl.requested[Len(gl.requested)]
               /\ gl.env.context[gl.context]
        /\ gl.isWebGL2 <=> gl.env.context["webgl2"]
        /\ gl.pc = "unavailable" <=>
               \A t \in ContextTypes : ~gl.env.context[t]
        /\ gl.pc = "unavailable" =>
               gl.requested = ContextOrder /\ gl.context = "null"

\* webgl2 and webgl were refused and experimental-webgl was granted, though
\* the environment would not have refused all of them.
C23_Witness ==
    /\ gl.pc = "context"
    /\ gl.requested = ContextOrder
    /\ gl.context = "experimental-webgl"
    /\ ~gl.isWebGL2

----------------------------------------------------------------------------
(* The meshes of Sphere01, checked under SpecSphereMeshes. *)

\* The arguments (stacks, slices) are in the domain where createSphereMesh
\* neither degenerates, nor warns, nor stores an index modulo 65536.
InSafeDomain(stacks, slices) ==
    /\ stacks >= 1
    /\ slices >= 1
    /\ (stacks + 1) * (slices + 1) <= 65535
    /\ VertexCountOf(stacks, slices) <= MaxVertexCount

\* The mesh m was built for slices slices without a warning, and every
\* index it holds is the vertex number meant, below vertexCount.
BuiltUntruncated(m, slices) ==
    /\ ~m.threw
    /\ ~m.warned
    /\ m.vertexCount <= MaxVertexCount
    /\ \A p \in DOMAIN m.indices.elems :
           /\ m.indices.elems[p] = IntendedIndex(slices, p)
           /\ m.indices.elems[p] < m.vertexCount

\* C24: every mesh Sphere01 builds is in the safe domain of
\* createSphereMesh.  The first one is built for (32, 64); every setting of
\* the sliders, stacks in 4..64 and slices in 4..128, has stacks >= 1,
\* slices >= 1 and (stacks+1)*(slices+1) <= 65535; and the mesh a Rebuild
\* click builds from the settings of that moment logs no capacity warning
\* and holds no index cut to 16 bits.
C24_MeshesInSafeDomain ==
    [][/\ (~Live(sp) /\ Live(sp')) =>
              /\ sp'.currentStacks = 32 /\ sp'.currentSlices = 64
              /\ BuiltUntruncated(sp'.mesh, 64)
              /\ \A stacks \in StacksMin..StacksMax :
                     \A slices \in SlicesMin..SlicesMax :
                         InSafeDomain(stacks, slices)
       /\ Live(sp') =>
              /\ sp'.currentStacks \in StacksMin..StacksMax
              /\ sp'.currentSlices \in SlicesMin..SlicesMax
              /\ InSafeDomain(sp'.currentStacks, sp'.currentSlices)
              /\ ~sp'.mesh.warned
       /\ (Live(sp) /\ Live(sp') /\ sp'.mesh # sp.mesh) =>
              /\ sp'.mesh.vertexCount =
                     (sp.currentStacks + 1) * (sp.currentSlices + 1)
              /\ BuiltUntruncated(sp'.mesh, sp.currentSlices)
    ]_vars

\* Rebuild has built the largest mesh the sliders allow: 65 * 129 vertices.
C24_Witness ==
    /\ Live(sp)
    /\ sp.currentStacks = StacksMax
    /\ sp.currentSlices = SlicesMax
    /\ sp.mesh.vertexCount = 8385
    /\ sp.mesh.indices.elems[sp.mesh.indexCount - 1] = 8384

----------------------------------------------------------------------------
(* The GPU objects of Sphere01, checked under SpecPages. *)

\* C25: in Sphere01, with a WebGL2 and with a WebGL1 context, the buffers
\* and vertex arrays created and not deleted stay bounded however often
\* Rebuild is clicked: at any time at most three buffers and one vertex
\* array are live, a rebuild reusing the buffers or releasing those it
\* replaces.
C25_GpuObjectsBounded ==
    Live(sp) =>
        /\ sp.objects.buffers <= 3
        /\ sp.objects.vertexArrays <= 1
====
